---------------------------- MODULE Spec2Model ----------------------------
(***************************************************************************)
(* A model of kmsvnc: the RFB session handler (handshake, reader, writer), *)
(* the client pixel-format converter, the dirty-tile bitmap and the        *)
(* capture scheduler.                                                      *)
(*                                                                         *)
(* Specifications:                                                         *)
(*   SpecHandshake  one connection through the RFB handshake               *)
(*   SpecReader     read_client_messages over a client byte stream         *)
(*   SpecConvert    ClientPixelFormat::from_bytes and convert_row_into     *)
(*   Spec           client sessions (reader, writer) with the scheduler    *)
(*   FairSpec       Spec with the fairness the runtime gives its tasks     *)
(*   SpecFrames     the capture thread publishing frames to the writers    *)
(*   SpecInput      readers forwarding input events, input_loop applying   *)
(*   SpecTiles      DirtyTiles under concurrent set, set_all and drains    *)
(*   SpecPixel      convert_to_bgra_into over mapped framebuffers          *)
(*   SpecSched      capture_loop with its clock, main and the senders      *)
(*   FairSched      SpecSched with the capture thread and main running     *)
(*   SpecSchedWriter  SpecSched with one writer waiting for its frames     *)
(*   SpecDiff       copy_rows_incremental over byte buffers                *)
(*   SpecCache      the Capturer's mmap cache                              *)
(*   SpecDes        vnc_des_auth, two calls compared                       *)
(*   SpecNew        DirtyTiles::new and the bit indices used after it      *)
(*   SpecTouch      VirtualTouchscreen::handle_pointer on its own          *)
(*   SpecUpdates    the updates written, against the frames used before    *)
(***************************************************************************)
EXTENDS Integers, Sequences, FiniteSets, TLC

VARIABLES
    \* ---- handshake (handle_client, server.rs 207-365)
    hpc,        \* position of handle_client in the handshake
    hPw,        \* password: Option<&str> as [some, bytes]
    hDim,       \* <<width, height>> handed to handle_client
    hMinor,     \* rfb_minor
    hChal,      \* the challenge perform_vnc_auth generated (<<>> before)
    hAuthOk,    \* result of perform_vnc_auth
    wire,       \* the socket's history: writes and reads in order
    \* ---- pixel conversion (server.rs 48-129, 429-468)
    cpf,        \* the ClientPixelFormat in the watched slot
    cvDebug,    \* whether the build checks arithmetic overflow (debug profile)
    cvRow,      \* the bgra_row last handed to the encoder
    cvOut,      \* the bytes written for that row
    cvState,    \* "idle", "ok" or "panic"
    cvFrame,    \* the frame the writer borrowed: [width, height, data]
    cvRect,     \* the rect the step just taken wrote the pixels of, or NoRect
    cvRectOut,  \* the pixel bytes written for that rect
    \* ---- read_client_messages over a byte stream (server.rs 486-587)
    rdStream,   \* bytes received from the client and not yet read
    rdSent,     \* the messages those bytes came in, as the client sent them
    rdEof,      \* the client has closed its sending side
    rdState,    \* "idle", "run", or "err" once the reader returned an error
    rdUpd,      \* update_req channel: the incremental flags queued
    rdInput,    \* input channel: the InputEvents queued
    \* ---- client sessions (server.rs 366-483, main.rs 169-190), per client
    cs,         \* handle_client: "none", "handshake", "loop" or "ended"
    rpc,        \* the reader task: "idle", "run" or "done"
    update_req, \* the update request channel: incremental flags queued
    wpc,        \* writer_loop: "recv", "changed", "borrow" or "emit"
    winc,       \* the incremental flag of the request being answered
    wframe,     \* the frame borrowed from the slot
    fresh,      \* frame_rx: the slot holds a version this receiver has not seen
    pixel_format, \* the session's pixel format slot
    nonincr,    \* the requests being answered include a non-incremental one
    \* ---- shared: frames, scheduler (main.rs 209-301), input (main.rs 303-340)
    dirty_tiles, \* DirtyTiles: the set of tile bits
    frame_slot, \* the frame in the watch slot
    prev_frame, \* the capturer's previous frame
    capture_req, \* requests queued on the capture request channel
    spc,        \* capture_loop: "wait", "capture" or "publish"
    mode,       \* CaptureMode: "OnDemand" or "Polling"
    fast_request_count,
    last_request_time, \* whether last_request_time is Some
    force,      \* the force argument of the capture under way
    captured,   \* the frame capture_fn returned, not yet sent
    capture_errors, \* capture failures so far
    input_q,    \* the input event channel
    sent,       \* messages the clients have sent so far
    out,        \* the FramebufferUpdate the step just taken wrote, if any
    \* ---- the frame slot (main.rs 28-50, 209-301; server.rs 389-405)
    fsBackend,  \* "drm" or "fbdev"
    fsPc,       \* capture_loop: "wait", "capture" or "publish"
    fsForce,    \* the force argument of the capture under way
    fsMode,     \* CaptureMode
    fsFast,     \* fast_request_count
    fsLastReq,  \* whether last_request_time is Some
    fsReq,      \* requests queued on the capture request channel
    fsSeq,      \* frames capture_fn has produced since the initial one
    fsPrev,     \* contents of the frame capture_fn produced last
    fsSrc,      \* framebuffer contents the last capture read
    fsData,     \* the frame do_capture is about to send, or NoFrame
    fsSlot,     \* the frame in the watch slot
    fsErrors,   \* capture failures so far
    fsSeen,     \* per writer: the slot version its receiver has seen
    fsHeld,     \* per writer: the frame borrowed for the update being written
    fsUsed,     \* per writer: the frame its previous update was written from
    fsWpc,      \* per writer: "recv", "changed", "borrow" or "emit"
    \* ---- input (server.rs 546-567, main.rs 303-340, input/*.rs)
    inWire,     \* per client: events written to the socket, not yet read
    inSent,     \* per client: every event it has sent, in order
    inChan,     \* the input channel: [from, ev] in arrival order
    inHandled,  \* per client: its events input_loop has taken, in order
    inPc,       \* input_loop: "idle", "create" or "loop"
    inTouch,    \* touch is Some
    inKeyboard, \* keyboard is Some
    touch,      \* VirtualTouchscreen: tracking_id, is_touching, last_x, last_y
    inReport,   \* the uinput events the step just taken wrote, if any
    inResult,   \* how the step just taken ended: "ok", "warn", "nodevice", "none"
    inReader,   \* per client: its reader task, "run" or "done"
    \* ---- DirtyTiles word by word (frame_diff.rs 18-91)
    dtGrid,     \* width and height given to DirtyTiles::new
    dtBits,     \* the tile indices whose bit is set in bits[0..8]
    dtSetAll,   \* set_all: the word it is at, -1 when not running
    dtPc,       \* per writer, drain_to_rects: word 0..7, 8 building, -1 outside
    dtWords,    \* per writer: the bits swapped into words so far
    dtOut,      \* the rects the drain that just returned handed to its writer
    dtWatch,    \* the writer whose drain is being followed, 0 if none
    dtStale,    \* tiles set when that drain was called and not set again since
    dtMine,     \* tiles set when that drain was called that no other drain took
    dtOwed,     \* tiles set and not swapped out by any drain since
    \* ---- source pixel conversion (kms/pixel_format.rs 52-145)
    pxFormat,   \* the framebuffer's DrmFourcc
    pxWidth,
    pxHeight,
    pxPitch,    \* bytes from one source row to the next
    pxSrc,      \* the mapped framebuffer bytes
    pxDst,      \* the bytes convert_to_bgra_into left in dst
    pxState,    \* "idle", "ok" or "err"
    \* ---- capture_loop with its clock (main.rs 134-301)
    scMain,     \* main: "serving", "awaiting" the capture thread, "returned", "failed"
    scShutdown, \* the shutdown flag
    scMainTx,   \* whether main's capture_req_tx is alive
    scClients,  \* client tasks alive, each holding a clone of capture_req_tx
    scReq,      \* requests queued in the channel
    scPc,       \* capture_loop: "recv", "capture" or "exited"
    scMode,     \* CaptureMode
    scFast,     \* fast_request_count
    scLast,     \* last_request_time.is_some()
    scSince,    \* milliseconds since last_request_time (since start before)
    scForce,    \* the force argument of the capture about to run
    scOut,      \* what the capture thread's step just taken did
    scHandled,  \* requests recv_timeout has returned, counted up to four
    scAllFast,  \* whether each came less than 100 ms after the previous one
    scW,        \* one writer followed: "none", "idle", "changed" (waiting in
                \* changed()), "failed" (waiting, a capture has failed since), "ended"
    scFresh,    \* whether the slot holds a version that writer has not seen
    \* ---- copy_rows_incremental over byte buffers (kms/pixel_format.rs 17-49)
    tdPad,      \* pitch - width * 4
    tdPrev,     \* dst before the call: the previous frame
    tdSrc,      \* the mapped framebuffer
    tdBits0,    \* the tile bits set before the call
    tdDst,      \* dst after the call
    tdBits,     \* the tile bits set after the call
    tdAny,      \* the value returned
    tdState,    \* "idle", "ready" or "done"
    \* ---- the Capturer's mmap cache (kms/capture.rs 133-419)
    cpState,    \* "none", "alive" or "dropped"
    cpCache,    \* self.cache: entries [fb_key, id], oldest first
    cpMaps,     \* mmaps made so far; mapping k is the k-th
    cpUnmaps,   \* per mapping, the munmaps made of it
    cpRead,     \* the mapping the call just made read, and whether it was mapped
    cpResult,   \* what the call just made returned
    use_fb2,    \* Capturer::use_fb2: "None", "Some(true)" or "Some(false)"
    use_prime,  \* Capturer::use_prime, likewise
    cpTried,    \* the mapping paths the call just made attempted, in order
    cpLog,      \* munmap, close_buffer and push of the call just made, in order
    \* ---- two calls of vnc_des_auth (vnc/server.rs 154-174)
    daState,    \* "none", "ready" or "done"
    daA,        \* a call: password, challenge, key_bytes, result
    daB,        \* another call
    \* ---- DirtyTiles::new and the indices used afterwards (frame_diff.rs 27-91)
    dnState,    \* "none", "ready", "built", "rejected" or "out_of_bounds"
    dnBuild,    \* "checked" or "wrapping" integer arithmetic
    dnDim,      \* <<width, height>> given to new
    dnTiles,    \* tiles_x, tiles_y and the total set_all computes
    dnUse,      \* the word and bit the operation just made addressed last
    dnBits,     \* the tile indices whose bit is set
    dnRects,    \* the bits the drain just made swapped out and the rects it returned
    \* ---- the VirtualTouchscreen on its own (input/touch.rs 100-163)
    tsTouch,    \* tracking_id, is_touching, last_x, last_y
    tsReport,   \* the report the call just made wrote, <<>> if none
    tsOk,       \* whether the call just made returned Ok
    tsPrevDown, \* the tracking id of the last touch-down written, if any
    tsLast,     \* "none", "down" or "up": the last down or up report written
    tsAssigned, \* tracking ids assigned since the start of the run
    tsAllOk,    \* every write so far succeeded
    upConn,
    upWpc,
    upInc,
    upUnseen,
    upHeld,
    upSince,
    upUsed,
    upOut,
    upBits,
    upSlot,
    upPrev,
    upData,
    upPc,
    upForce,
    upMode,
    upFast,
    upLastReq,
    upReq

hsVars == <<hpc, hPw, hDim, hMinor, hChal, hAuthOk, wire>>

cvVars == <<cpf, cvDebug, cvRow, cvOut, cvState, cvFrame, cvRect, cvRectOut>>

rdVars == <<rdStream, rdSent, rdEof, rdState, rdUpd, rdInput>>

ssVars == <<cs, rpc, update_req, wpc, winc, wframe, fresh, pixel_format, nonincr,
            dirty_tiles, frame_slot, prev_frame, capture_req, spc, mode,
            fast_request_count, last_request_time, force, captured, capture_errors,
            input_q, sent, out>>

fsVars == <<fsBackend, fsPc, fsForce, fsMode, fsFast, fsLastReq, fsReq, fsSeq, fsPrev,
            fsSrc, fsData, fsSlot, fsErrors, fsSeen, fsHeld, fsUsed, fsWpc>>

inVars == <<inWire, inSent, inChan, inHandled, inPc, inTouch, inKeyboard, touch,
            inReport, inResult, inReader>>

dtVars == <<dtGrid, dtBits, dtSetAll, dtPc, dtWords, dtOut, dtWatch, dtStale, dtMine,
            dtOwed>>

pxVars == <<pxFormat, pxWidth, pxHeight, pxPitch, pxSrc, pxDst, pxState>>

scVars == <<scMain, scShutdown, scMainTx, scClients, scReq, scPc, scMode, scFast,
            scLast, scSince, scForce, scOut, scHandled, scAllFast, scW, scFresh>>

tdVars == <<tdPad, tdPrev, tdSrc, tdBits0, tdDst, tdBits, tdAny, tdState>>

cpVars == <<cpState, cpCache, cpMaps, cpUnmaps, cpRead, cpResult, use_fb2, use_prime, cpTried,
           cpLog>>

daVars == <<daState, daA, daB>>

dnVars == <<dnState, dnBuild, dnDim, dnTiles, dnUse, dnBits, dnRects>>

tsVars == <<tsTouch, tsReport, tsOk, tsPrevDown, tsLast, tsAssigned, tsAllOk>>

upVars == <<upConn, upWpc, upInc, upUnseen, upHeld, upSince, upUsed, upOut,
            upBits, upSlot, upPrev, upData, upPc, upForce, upMode, upFast,
            upLastReq, upReq>>

moreVars == <<scVars, tdVars, cpVars, daVars, dnVars, tsVars, upVars>>

extVars == <<fsVars, inVars, dtVars, pxVars, moreVars>>

vars == <<hsVars, cvVars, rdVars, ssVars, extVars>>

-----------------------------------------------------------------------------
(* Bytes and big-endian encodings                                          *)

Byte == 0..255

RECURSIVE Pow2(_)
Pow2(n) == IF n = 0 THEN 1 ELSE 2 * Pow2(n - 1)

\* u16::to_be_bytes
U16BE(n) == <<(n \div 256) % 256, n % 256>>

\* u32::to_be_bytes
U32BE(n) == <<(n \div 16777216) % 256, (n \div 65536) % 256, (n \div 256) % 256, n % 256>>

\* b"..." literals of server.rs as ASCII bytes
VersionString == <<82, 70, 66, 32, 48, 48, 51, 46, 48, 48, 56, 10>>

ServerName == <<107, 109, 115, 118, 110, 99>>

AuthFailedReason ==
    <<65, 117, 116, 104, 101, 110, 116, 105, 99, 97, 116, 105, 111, 110, 32,
      102, 97, 105, 108, 101, 100>>

PIXEL_FORMAT == <<32, 24, 0, 1, 0, 255, 0, 255, 0, 255, 16, 8, 0, 0, 0, 0>>

-----------------------------------------------------------------------------
(* VNC DES authentication                                                  *)

\* key bytes used as they are
ReverseBits_Identity(b) == b

\* u8::reverse_bits
ReverseBits(b) ==
    LET bit(j) == (b \div Pow2(j)) % 2
    IN  bit(0) * 128 + bit(1) * 64 + bit(2) * 32 + bit(3) * 16
        + bit(4) * 8 + bit(5) * 4 + bit(6) * 2 + bit(7)

\* a key that folds the ninth password byte into the eighth
DesKey_NoTruncation(pw) ==
    [i \in 1..8 |->
        ReverseBits(IF i > Len(pw) THEN 0
                    ELSE IF i = 8 /\ Len(pw) > 8 THEN (pw[8] + pw[9]) % 256
                    ELSE pw[i])]

\* key_bytes: the first 8 password bytes, zero padded, each bit-reversed
DesKey(pw) ==
    [i \in 1..8 |-> ReverseBits(IF i <= Len(pw) THEN pw[i] ELSE 0)]

\* Des::encrypt_block of the des crate, abstracted as a keyed bijection on
\* 8-byte blocks (every key byte and every block byte takes part)
DesEncryptBlock(key, block) ==
    LET mix == (key[1] + key[2] + key[3] + key[4] + key[5] + key[6] + key[7] + key[8]) % 256
    IN  [i \in 1..8 |-> (block[i] + key[i] + mix + i) % 256]

\* the second block chained to the first (CBC instead of ECB)
vnc_des_auth_Chained(pw, challenge) ==
    LET key == DesKey(pw)
        first == DesEncryptBlock(key, SubSeq(challenge, 1, 8))
    IN  first \o DesEncryptBlock(key, [i \in 1..8 |-> (challenge[8 + i] + first[i]) % 256])

vnc_des_auth(pw, challenge) ==
    LET key == DesKey(pw)
    IN  DesEncryptBlock(key, SubSeq(challenge, 1, 8))
        \o DesEncryptBlock(key, SubSeq(challenge, 9, 16))

-----------------------------------------------------------------------------
(* Parsing the client's ProtocolVersion                                    *)

IsDigit(b) == b >= 48 /\ b <= 57

\* std::str::from_utf8(..).ok(): one-byte and two-byte encodings are
\* recognised; every other lead byte is rejected (the sample buffers hold no
\* three- or four-byte encodings)
RECURSIVE Utf8From(_, _)
Utf8From(buf, i) ==
    IF i > Len(buf) THEN TRUE
    ELSE IF buf[i] < 128 THEN Utf8From(buf, i + 1)
    ELSE IF buf[i] >= 194 /\ buf[i] <= 223 /\ i + 1 <= Len(buf)
            /\ buf[i + 1] >= 128 /\ buf[i + 1] <= 191
         THEN Utf8From(buf, i + 2)
    ELSE FALSE

\* str::is_char_boundary at byte offset off (0-based) of a valid string
IsCharBoundary(buf, off) ==
    off = Len(buf) \/ (off < Len(buf) /\ ~(buf[off + 1] >= 128 /\ buf[off + 1] <= 191))

\* str::parse::<u16>() of three bytes: an optional '+' and then digits
\* (at least one); -1 stands for Err
ParseU16(m) ==
    LET digits == IF m[1] = 43 THEN SubSeq(m, 2, Len(m)) ELSE m
        val[k \in 0..Len(digits)] ==
            IF k = 0 THEN 0 ELSE val[k - 1] * 10 + (digits[k] - 48)
    IN  IF Len(digits) = 0 \/ \E k \in 1..Len(digits) : ~IsDigit(digits[k])
        THEN -1
        ELSE val[Len(digits)]

\* rfb_minor: from_utf8(ver_buf).ok().and_then(get(8..11)).and_then(parse).unwrap_or(8)
ParseMinor(buf) ==
    IF ~Utf8From(buf, 1) THEN 8
    ELSE IF ~(IsCharBoundary(buf, 8) /\ IsCharBoundary(buf, 11)) THEN 8
    ELSE LET v == ParseU16(SubSeq(buf, 9, 11))
         IN  IF v < 0 THEN 8 ELSE v

-----------------------------------------------------------------------------
(* Handshake inputs                                                        *)

NoPassword == [some |-> FALSE, bytes |-> <<>>]

\* "secret" and a nine-byte password
PasswordSamples ==
    { NoPassword,
      [some |-> TRUE, bytes |-> <<115, 101, 99, 114, 101, 116>>],
      [some |-> TRUE, bytes |-> <<112, 97, 115, 115, 119, 48, 114, 100, 57>>] }

DimSamples == { <<1920, 1080>>, <<128, 64>> }

\* "RFB 003.003\n", "RFB 003.006\n", "RFB 003.007\n", "RFB 003.008\n",
\* "RFB 003.889\n", "RFB 003.+05\n", "GET / HTTP/1" and twelve bytes that are
\* not UTF-8
VersionSamples ==
    { <<82, 70, 66, 32, 48, 48, 51, 46, 48, 48, 51, 10>>,
      <<82, 70, 66, 32, 48, 48, 51, 46, 48, 48, 54, 10>>,
      <<82, 70, 66, 32, 48, 48, 51, 46, 48, 48, 55, 10>>,
      <<82, 70, 66, 32, 48, 48, 51, 46, 48, 48, 56, 10>>,
      <<82, 70, 66, 32, 48, 48, 51, 46, 56, 56, 57, 10>>,
      <<82, 70, 66, 32, 48, 48, 51, 46, 43, 48, 53, 10>>,
      <<71, 69, 84, 32, 47, 32, 72, 84, 84, 80, 47, 49>>,
      <<82, 70, 66, 32, 48, 48, 51, 46, 48, 48, 255, 10>> }

ChallengeSamples ==
    { [i \in 1..16 |-> 0], [i \in 1..16 |-> i - 1] }

\* what a client may answer: the right response for some sample password and
\* challenge, or sixteen zero bytes
ResponseSamples ==
    { vnc_des_auth(p.bytes, c) : p \in PasswordSamples \ {NoPassword}, c \in ChallengeSamples }
    \cup { [i \in 1..16 |-> 0] }

SelectionSamples == {0, 1, 2, 16}

ClientInitSamples == {0, 1}

-----------------------------------------------------------------------------
(* Handshake: handle_client up to the message loop                         *)

Wr(bytes) == [d |-> "w", b |-> bytes]

Rd(bytes) == [d |-> "r", b |-> bytes]

\* the arms of match rfb_minor
MinorClass(minor) ==
    IF minor <= 6 THEN "v33" ELSE IF minor = 7 THEN "v37" ELSE "v38"

\* the security type the server uses: 2 with a password, else 1
SecurityType(pw) == IF pw.some THEN 2 ELSE 1

\* what the server writes in the security step
SecurityBytes(minor, pw) ==
    IF MinorClass(minor) = "v33"
    THEN U32BE(SecurityType(pw))
    ELSE <<1, SecurityType(pw)>>

\* where handle_client goes after the security bytes were written
AfterSecurity(minor, pw) ==
    IF MinorClass(minor) = "v33"
    THEN IF pw.some THEN "auth_send" ELSE "client_init"
    ELSE "read_sel"

\* AfterSelection with a SecurityResult also sent to a 3.7 client
AfterSelection_Result37(minor, pw, sel) ==
    IF sel # SecurityType(pw) THEN "closed"
    ELSE IF pw.some THEN "auth_send"
    ELSE "result_ok"

\* where it goes after reading the client's selected type (3.7 and 3.8)
AfterSelection(minor, pw, sel) ==
    IF sel # SecurityType(pw) THEN "closed"
    ELSE IF pw.some THEN "auth_send"
    ELSE IF MinorClass(minor) = "v37" THEN "client_init"
    ELSE "result_ok"

\* AuthMatches with the comparison inverted
AuthMatches_Negated(response, expected) == response # expected

\* perform_vnc_auth's comparison: response == expected
AuthMatches(response, expected) == response = expected

\* AfterAuth with the 3.8 failure shape used for every version
AfterAuth_AlwaysResult(minor, ok) ==
    IF ok
    THEN IF MinorClass(minor) = "v38" THEN "result_ok" ELSE "client_init"
    ELSE "result_fail"

\* where it goes after perform_vnc_auth returned ok
AfterAuth(minor, ok) ==
    IF MinorClass(minor) = "v38"
    THEN IF ok THEN "result_ok" ELSE "result_fail"
    ELSE IF ok THEN "client_init" ELSE "closed"

\* ServerInitBytes with the name length written as u16
ServerInitBytes_ShortLen(w, h) ==
    U16BE(w) \o U16BE(h) \o PIXEL_FORMAT \o U16BE(Len(ServerName)) \o ServerName

ServerInitBytes(w, h) ==
    U16BE(w) \o U16BE(h) \o PIXEL_FORMAT \o U32BE(Len(ServerName)) \o ServerName

\* the parts of the state the handshake does not touch
HsFrame == UNCHANGED <<cvVars, rdVars, ssVars, extVars>>

\* the handshake is not running: no connection is in it
HsIdle ==
    /\ hpc = "closed"
    /\ hPw = NoPassword
    /\ hDim = <<128, 64>>
    /\ hMinor = 8
    /\ hChal = <<>>
    /\ hAuthOk = FALSE
    /\ wire = <<>>

HsInit ==
    /\ hpc = "send_version"
    /\ hPw \in PasswordSamples
    /\ hDim \in DimSamples
    /\ hMinor = 8
    /\ hChal = <<>>
    /\ hAuthOk = FALSE
    /\ wire = <<>>

HsSendVersion ==
    /\ hpc = "send_version"
    /\ wire' = Append(wire, Wr(VersionString))
    /\ hpc' = "read_version"
    /\ UNCHANGED <<hPw, hDim, hMinor, hChal, hAuthOk>>
    /\ HsFrame

HsReadVersion ==
    /\ hpc = "read_version"
    /\ \E buf \in VersionSamples :
        /\ wire' = Append(wire, Rd(buf))
        /\ hMinor' = ParseMinor(buf)
    /\ hpc' = "security"
    /\ UNCHANGED <<hPw, hDim, hChal, hAuthOk>>
    /\ HsFrame

HsSecurity ==
    /\ hpc = "security"
    /\ wire' = Append(wire, Wr(SecurityBytes(hMinor, hPw)))
    /\ hpc' = AfterSecurity(hMinor, hPw)
    /\ UNCHANGED <<hPw, hDim, hMinor, hChal, hAuthOk>>
    /\ HsFrame

HsReadSelection ==
    /\ hpc = "read_sel"
    /\ \E sel \in SelectionSamples :
        /\ wire' = Append(wire, Rd(<<sel>>))
        /\ hpc' = AfterSelection(hMinor, hPw, sel)
    /\ UNCHANGED <<hPw, hDim, hMinor, hChal, hAuthOk>>
    /\ HsFrame

\* perform_vnc_auth, first half: the random challenge is written
HsAuthSendChallenge ==
    /\ hpc = "auth_send"
    /\ \E c \in ChallengeSamples :
        /\ hChal' = c
        /\ wire' = Append(wire, Wr(c))
    /\ hpc' = "auth_read"
    /\ UNCHANGED <<hPw, hDim, hMinor, hAuthOk>>
    /\ HsFrame

\* perform_vnc_auth, second half, and the caller's branch on its result
HsAuthReadResponse ==
    /\ hpc = "auth_read"
    /\ \E response \in ResponseSamples :
        LET ok == AuthMatches(response, vnc_des_auth(hPw.bytes, hChal))
        IN  /\ wire' = Append(wire, Rd(response))
            /\ hAuthOk' = ok
            /\ hpc' = AfterAuth(hMinor, ok)
    /\ UNCHANGED <<hPw, hDim, hMinor, hChal>>
    /\ HsFrame

HsSecurityResultOk ==
    /\ hpc = "result_ok"
    /\ wire' = Append(wire, Wr(U32BE(0)))
    /\ hpc' = "client_init"
    /\ UNCHANGED <<hPw, hDim, hMinor, hChal, hAuthOk>>
    /\ HsFrame

\* SecurityResult failed, the reason, then bail!
HsSecurityResultFailed ==
    /\ hpc = "result_fail"
    /\ wire' = wire \o <<Wr(U32BE(1)), Wr(U32BE(Len(AuthFailedReason))), Wr(AuthFailedReason)>>
    /\ hpc' = "closed"
    /\ UNCHANGED <<hPw, hDim, hMinor, hChal, hAuthOk>>
    /\ HsFrame

HsReadClientInit ==
    /\ hpc = "client_init"
    /\ \E b \in ClientInitSamples : wire' = Append(wire, Rd(<<b>>))
    /\ hpc' = "server_init"
    /\ UNCHANGED <<hPw, hDim, hMinor, hChal, hAuthOk>>
    /\ HsFrame

HsSendServerInit ==
    /\ hpc = "server_init"
    /\ wire' = Append(wire, Wr(ServerInitBytes(hDim[1], hDim[2])))
    /\ hpc' = "loop"
    /\ UNCHANGED <<hPw, hDim, hMinor, hChal, hAuthOk>>
    /\ HsFrame

\* a read_exact or write_all of the handshake fails (the `?` operator): the
\* session ends and nothing more is written
HsIoError ==
    /\ hpc \notin {"loop", "closed", "result_fail"}
    /\ hpc' = "closed"
    /\ UNCHANGED <<hPw, hDim, hMinor, hChal, hAuthOk, wire>>
    /\ HsFrame

HsNext ==
    \/ HsSendVersion
    \/ HsReadVersion
    \/ HsSecurity
    \/ HsReadSelection
    \/ HsAuthSendChallenge
    \/ HsAuthReadResponse
    \/ HsSecurityResultOk
    \/ HsSecurityResultFailed
    \/ HsReadClientInit
    \/ HsSendServerInit
    \/ HsIoError

-----------------------------------------------------------------------------
(* Client pixel format and row conversion                                  *)

\* ClientPixelFormat::server_default
server_default ==
    [bpp |-> 32, big_endian |-> FALSE,
     red_max |-> 255, green_max |-> 255, blue_max |-> 255,
     red_shift |-> 16, green_shift |-> 8, blue_shift |-> 0]

\* ClientPixelFormat::from_bytes on the 16 pixel-format bytes (1-based here)
from_bytes(buf) ==
    [bpp |-> buf[1], big_endian |-> buf[3] # 0,
     red_max |-> buf[5] * 256 + buf[6],
     green_max |-> buf[7] * 256 + buf[8],
     blue_max |-> buf[9] * 256 + buf[10],
     red_shift |-> buf[11], green_shift |-> buf[12], blue_shift |-> buf[13]]

matches_server_default(pf) ==
    /\ pf.bpp = 32
    /\ ~pf.big_endian
    /\ pf.red_max = 255 /\ pf.green_max = 255 /\ pf.blue_max = 255
    /\ pf.red_shift = 16 /\ pf.green_shift = 8 /\ pf.blue_shift = 0

\* bytes_pp = (pf.bpp / 8) as usize
BytesPerPixel(pf) == pf.bpp \div 8

\* the channel scaling of convert_row_into
ScaleChannel(v, max) == IF max = 255 THEN v ELSE (v * max) \div 255

\* u32 << u8: a shift amount of 32 or more is an arithmetic overflow, which
\* panics where overflow checks are compiled in and otherwise shifts by the
\* amount modulo 32
ShlOverflows(shift) == shift >= 32

\* a u32 is held as the set of its one-bits (0 = least significant), so
\* that << and | stay exact; Bits(v) is the set for a value below 2^16
Bits(v) == { i \in 0..15 : (v \div Pow2(i)) % 2 = 1 }

\* x << (shift % 32) on a u32: bits pushed past bit 31 are lost
Shl32(bits, shift) == { i + (shift % 32) : i \in bits } \cap (0..31)

\* byte k (0 = least significant) of a u32
ByteOf(bits, k) ==
    LET w(j) == IF (8 * k + j) \in bits THEN Pow2(j) ELSE 0
    IN  w(0) + w(1) + w(2) + w(3) + w(4) + w(5) + w(6) + w(7)

\* u32::to_le_bytes
U32LE(bits) == <<ByteOf(bits, 0), ByteOf(bits, 1), ByteOf(bits, 2), ByteOf(bits, 3)>>

\* the pixel value packed from one BGRA source pixel
PackPixel(px, pf) ==
    LET rs == ScaleChannel(px[3], pf.red_max)
        gs == ScaleChannel(px[2], pf.green_max)
        bs == ScaleChannel(px[1], pf.blue_max)
    IN  Shl32(Bits(rs), pf.red_shift) \cup Shl32(Bits(gs), pf.green_shift)
        \cup Shl32(Bits(bs), pf.blue_shift)

\* match bytes_pp { 4, 2, 1, _ }: the bytes pushed for one pixel value
PixelBytes(pixel, pf) ==
    LET n == BytesPerPixel(pf)
        le == U32LE(pixel)
    IN  IF n = 4 THEN (IF pf.big_endian THEN <<le[4], le[3], le[2], le[1]>> ELSE le)
        ELSE IF n = 2 THEN (IF pf.big_endian THEN <<le[2], le[1]>> ELSE <<le[1], le[2]>>)
        ELSE IF n = 1 THEN <<le[1]>>
        ELSE SubSeq(le, 1, n)

\* whether converting one pixel panics: the `_` arm slices
\* pixel.to_le_bytes()[..bytes_pp] out of a 4-byte array, and a shift
\* amount of 32 or more overflows in a build with overflow checks
PixelPanics(pf, debug) ==
    \/ BytesPerPixel(pf) > 4
    \/ debug /\ (ShlOverflows(pf.red_shift) \/ ShlOverflows(pf.green_shift)
                 \/ ShlOverflows(pf.blue_shift))

\* convert_row_into: the converted bytes of a row of BGRA pixels
RECURSIVE ConvertRow(_, _)
ConvertRow(row, pf) ==
    IF Len(row) < 4 THEN <<>>
    ELSE PixelBytes(PackPixel(SubSeq(row, 1, 4), pf), pf)
         \o ConvertRow(SubSeq(row, 5, Len(row)), pf)

\* convert_row_into panics as soon as the row holds a pixel
ConvertRowPanics(row, pf, debug) == Len(row) >= 4 /\ PixelPanics(pf, debug)

\* the 16 pixel-format bytes a client may send in SetPixelFormat: the server
\* default, RGB565, BGR233, 32 bpp big-endian, 24 bpp, 0 bpp, 64 bpp,
\* 32 bpp with a red shift of 32 and maxima of 65535, and 255 bpp
PixelFormatSamples ==
    { PIXEL_FORMAT,
      <<16, 16, 0, 1, 0, 31, 0, 63, 0, 31, 11, 5, 0, 0, 0, 0>>,
      <<8, 8, 0, 1, 0, 7, 0, 7, 0, 3, 0, 3, 6, 0, 0, 0>>,
      <<32, 24, 1, 1, 0, 255, 0, 255, 0, 255, 24, 16, 8, 0, 0, 0>>,
      <<24, 24, 0, 1, 0, 255, 0, 255, 0, 255, 16, 8, 0, 0, 0, 0>>,
      <<0, 0, 0, 0, 0, 0, 0, 0, 0, 0, 0, 0, 0, 0, 0, 0>>,
      <<64, 24, 0, 1, 0, 255, 0, 255, 0, 255, 16, 8, 0, 0, 0, 0>>,
      <<32, 24, 0, 1, 255, 255, 255, 255, 255, 255, 32, 8, 0, 0, 0, 0>>,
      <<255, 255, 255, 255, 255, 255, 255, 255, 255, 255, 255, 255, 255, 0, 0, 0>> }

\* rows of one or two BGRA pixels
RowSamples ==
    { <<0, 0, 0, 255>>,
      <<1, 128, 255, 255>>,
      <<255, 255, 255, 255, 16, 32, 64, 255>> }

\* frames of 3 x 2 and 2 x 3 pixels, every byte different from its
\* neighbours
FrameByteSamples ==
    { [width |-> 3, height |-> 2, data |-> [i \in 1..24 |-> 10 + i]],
      [width |-> 2, height |-> 3, data |-> [i \in 1..24 |-> (37 * i) % 256]] }

NoRect == [x |-> 0, y |-> 0, width |-> 0, height |-> 0]

\* rects that lie inside a frame: the whole frame, and the rects that touch
\* its bottom right corner
RectsInside(frame) ==
    { r \in [x : 0..(frame.width - 1), y : 0..(frame.height - 1),
             width : 1..frame.width, height : 1..frame.height] :
        r.x + r.width = frame.width /\ r.y + r.height = frame.height }

\* a row slice that starts at the row's first pixel, whatever rect.x is
BgraRow_FromRowStart(frame, rect, row) ==
    SubSeq(frame.data, row * frame.width * 4 + 1,
           row * frame.width * 4 + rect.width * 4)

\* &frame[start..end] of one rect row
BgraRow(frame, rect, row) ==
    LET stride == frame.width * 4
        start == row * stride + rect.x * 4
        end == start + rect.width * 4
    IN  SubSeq(frame.data, start + 1, end)

\* the row loop of one rect: raw rows, or rows through convert_row_into
RECURSIVE RectRows(_, _, _, _)
RectRows(frame, rect, pf, row) ==
    IF row >= rect.y + rect.height THEN <<>>
    ELSE (IF matches_server_default(pf)
          THEN BgraRow(frame, rect, row)
          ELSE ConvertRow(BgraRow(frame, rect, row), pf))
         \o RectRows(frame, rect, pf, row + 1)

CvIdle ==
    /\ cpf = server_default
    /\ cvDebug = FALSE
    /\ cvRow = <<>>
    /\ cvOut = <<>>
    /\ cvState = "idle"
    /\ cvFrame = [width |-> 3, height |-> 2, data |-> [i \in 1..24 |-> 10 + i]]
    /\ cvRect = NoRect
    /\ cvRectOut = <<>>

CvInit ==
    /\ cpf = server_default
    /\ cvDebug \in BOOLEAN
    /\ cvRow = <<>>
    /\ cvOut = <<>>
    /\ cvState = "idle"
    /\ cvFrame \in FrameByteSamples
    /\ cvRect = NoRect
    /\ cvRectOut = <<>>

CvFrame == UNCHANGED <<hsVars, rdVars, ssVars, extVars>>

\* the reader's SetPixelFormat arm: pf_tx.send(from_bytes(&buf[3..19]))
CvSetPixelFormat ==
    /\ cvState # "panic"
    /\ \E buf \in PixelFormatSamples : cpf' = from_bytes(buf)
    /\ cvRect' = NoRect
    /\ cvRectOut' = <<>>
    /\ UNCHANGED <<cvDebug, cvRow, cvOut, cvState, cvFrame>>
    /\ CvFrame

\* the writer encodes one rect row: raw when the format is the server's,
\* converted otherwise
CvEncodeRow ==
    /\ cvState # "panic"
    /\ \E row \in RowSamples :
        /\ cvRow' = row
        /\ IF matches_server_default(cpf)
           THEN cvOut' = row /\ cvState' = "ok"
           ELSE IF ConvertRowPanics(row, cpf, cvDebug)
                THEN cvOut' = <<>> /\ cvState' = "panic"
                ELSE cvOut' = ConvertRow(row, cpf) /\ cvState' = "ok"
    /\ cvRect' = NoRect
    /\ cvRectOut' = <<>>
    /\ UNCHANGED <<cpf, cvDebug, cvFrame>>
    /\ CvFrame

\* the writer writes the pixels of one rect of the borrowed frame, row by
\* row (server.rs 449-466)
CvEncodeRect ==
    /\ cvState # "panic"
    /\ \E rect \in RectsInside(cvFrame) :
        /\ cvRect' = rect
        /\ IF ~matches_server_default(cpf) /\ PixelPanics(cpf, cvDebug)
           THEN cvRectOut' = <<>> /\ cvState' = "panic"
           ELSE cvRectOut' = RectRows(cvFrame, rect, cpf, rect.y) /\ cvState' = "ok"
    /\ UNCHANGED <<cpf, cvDebug, cvRow, cvOut, cvFrame>>
    /\ CvFrame

CvNext ==
    \/ CvSetPixelFormat
    \/ CvEncodeRow
    \/ CvEncodeRect

-----------------------------------------------------------------------------
(* read_client_messages                                                    *)

\* mpsc::channel::<bool>(4)
UPDATE_CHANNEL_CAPACITY == 4

\* bound on the input events queued in the model (the channel holds 256)
MaxInputQueue == 1

\* bound on the client messages in flight on the socket
MaxInFlight == 2

\* u32::from_be_bytes of four stream bytes (the samples keep it below 2^31)
BeU32(b) == ((b[1] * 256 + b[2]) * 256 + b[3]) * 256 + b[4]

\* MessageLength with SetEncodings read as two bytes per encoding
MessageLength_ShortEncodings(stream) ==
    IF Len(stream) = 0 THEN 0
    ELSE LET t == stream[1]
         IN  IF t = 0 THEN 1 + 19
             ELSE IF t = 2
                  THEN IF Len(stream) < 4 THEN -1
                       ELSE 1 + 3 + (stream[3] * 256 + stream[4]) * 2
             ELSE IF t = 3 THEN 1 + 9
             ELSE IF t = 4 THEN 1 + 7
             ELSE IF t = 5 THEN 1 + 5
             ELSE IF t = 6
                  THEN IF Len(stream) < 8 THEN -1
                       ELSE 1 + 7 + BeU32(SubSeq(stream, 5, 8))
             ELSE 1

\* the total number of bytes the reader reads for the message at the head
\* of the stream, the type byte included: 0 when the stream is empty, -1
\* when the length field has not arrived yet, 1 for an unknown type
MessageLength(stream) ==
    IF Len(stream) = 0 THEN 0
    ELSE LET t == stream[1]
         IN  IF t = 0 THEN 1 + 19
             ELSE IF t = 2
                  THEN IF Len(stream) < 4 THEN -1
                       ELSE 1 + 3 + (stream[3] * 256 + stream[4]) * 4
             ELSE IF t = 3 THEN 1 + 9
             ELSE IF t = 4 THEN 1 + 7
             ELSE IF t = 5 THEN 1 + 5
             ELSE IF t = 6
                  THEN IF Len(stream) < 8 THEN -1
                       ELSE 1 + 7 + BeU32(SubSeq(stream, 5, 8))
             ELSE 1

\* whether the type byte selects an arm other than bail!
KnownType(t) == t \in {0, 2, 3, 4, 5, 6}

\* the update request the message forwards: <<incremental>> or <<>>
ForwardedUpdate(msg) ==
    IF msg[1] = 3 THEN <<msg[2] # 0>> ELSE <<>>

\* the InputEvent the message forwards: <<event>> or <<>>
ForwardedInput(msg) ==
    IF msg[1] = 4
    THEN <<[kind |-> "Key", down |-> msg[2] # 0, keysym |-> BeU32(SubSeq(msg, 5, 8)),
            button_mask |-> 0, x |-> 0, y |-> 0]>>
    ELSE IF msg[1] = 5
    THEN <<[kind |-> "Pointer", down |-> FALSE, keysym |-> 0,
            button_mask |-> msg[2], x |-> msg[3] * 256 + msg[4], y |-> msg[5] * 256 + msg[6]]>>
    ELSE <<>>

\* the pixel format after the message: from_bytes(&buf[3..19]) on SetPixelFormat
PixelFormatAfter(msg, pf) ==
    IF msg[1] = 0 THEN from_bytes(SubSeq(msg, 5, 20)) ELSE pf

\* messages a client may send: SetPixelFormat (64 bpp, padding bytes 3),
\* SetEncodings (none; one whose bytes read 3,1,0,0),
\* FramebufferUpdateRequest (incremental 0, 1, 2), KeyEvent, PointerEvent,
\* ClientCutText (two bytes 4,5), and the unknown types 1 and 7 followed by
\* bytes that read as an update request and as a key event
MessageSamples ==
    { <<0, 3, 3, 3, 64, 24, 0, 1, 0, 255, 0, 255, 0, 255, 16, 8, 0, 3, 3, 3>>,
      <<2, 0, 0, 0>>,
      <<2, 0, 0, 1, 3, 1, 0, 0>>,
      <<3, 0, 0, 0, 0, 0, 0, 128, 0, 64>>,
      <<3, 1, 0, 0, 0, 0, 0, 128, 0, 64>>,
      <<3, 2, 0, 0, 0, 0, 0, 128, 0, 64>>,
      <<4, 1, 0, 0, 0, 0, 0, 97>>,
      <<5, 1, 0, 10, 0, 20>>,
      <<6, 0, 0, 0, 0, 0, 0, 2, 4, 5>>,
      <<1, 3, 1, 0, 0, 0, 0, 0, 128, 0, 64>>,
      <<7, 4, 1, 0, 0, 0, 0, 0, 97>> }

RdIdle ==
    /\ rdStream = <<>>
    /\ rdSent = <<>>
    /\ rdEof = FALSE
    /\ rdState = "idle"
    /\ rdUpd = <<>>
    /\ rdInput = <<>>

RdInit ==
    /\ rdStream = <<>>
    /\ rdSent = <<>>
    /\ rdEof = FALSE
    /\ rdState = "run"
    /\ rdUpd = <<>>
    /\ rdInput = <<>>

RdFrame == UNCHANGED <<hsVars, cvDebug, cvRow, cvOut, cvState, cvFrame, cvRect, cvRectOut,
                       ssVars, extVars>>

\* the client sends one more message
RdClientSend ==
    /\ ~rdEof
    /\ Len(rdSent) < MaxInFlight
    /\ \E m \in MessageSamples :
        /\ rdStream' = rdStream \o m
        /\ rdSent' = Append(rdSent, m)
    /\ UNCHANGED <<rdEof, rdState, rdUpd, rdInput, cpf>>
    /\ RdFrame

\* the client closes the connection
RdClientClose ==
    /\ ~rdEof
    /\ rdEof' = TRUE
    /\ UNCHANGED <<rdStream, rdSent, rdState, rdUpd, rdInput, cpf>>
    /\ RdFrame

\* one turn of the reader's loop: the type byte, the body, the arm's effect.
\* A send into a full channel waits, so the turn completes once there is room.
RdHandleMessage ==
    /\ rdState = "run"
    /\ MessageLength(rdStream) >= 1
    /\ Len(rdStream) >= MessageLength(rdStream)
    /\ LET n == MessageLength(rdStream)
           msg == SubSeq(rdStream, 1, n)
       IN  IF KnownType(msg[1])
           THEN /\ Len(rdUpd) + Len(ForwardedUpdate(msg)) <= UPDATE_CHANNEL_CAPACITY
                /\ Len(rdInput) + Len(ForwardedInput(msg)) <= MaxInputQueue
                /\ rdStream' = SubSeq(rdStream, n + 1, Len(rdStream))
                /\ rdUpd' = rdUpd \o ForwardedUpdate(msg)
                /\ rdInput' = rdInput \o ForwardedInput(msg)
                /\ cpf' = PixelFormatAfter(msg, cpf)
                /\ rdState' = "run"
           ELSE /\ rdStream' = SubSeq(rdStream, n + 1, Len(rdStream))
                /\ rdState' = "err"
                /\ UNCHANGED <<rdUpd, rdInput, cpf>>
    /\ rdSent' = Tail(rdSent)
    /\ UNCHANGED rdEof
    /\ RdFrame

\* read_exact meets the end of the stream: context(..)? returns the error
RdReadEof ==
    /\ rdState = "run"
    /\ rdEof
    /\ Len(rdStream) = 0
    /\ rdState' = "err"
    /\ UNCHANGED <<rdStream, rdSent, rdEof, rdUpd, rdInput, cpf>>
    /\ RdFrame

\* the writer takes an update request off the channel
RdWriterRecv ==
    /\ Len(rdUpd) > 0
    /\ rdUpd' = Tail(rdUpd)
    /\ UNCHANGED <<rdStream, rdSent, rdEof, rdState, rdInput, cpf>>
    /\ RdFrame

\* the input loop takes an event off the channel
RdInputRecv ==
    /\ Len(rdInput) > 0
    /\ rdInput' = Tail(rdInput)
    /\ UNCHANGED <<rdStream, rdSent, rdEof, rdState, rdUpd, cpf>>
    /\ RdFrame

RdNext ==
    \/ RdClientSend
    \/ RdClientClose
    \/ RdHandleMessage
    \/ RdReadEof
    \/ RdWriterRecv
    \/ RdInputRecv

-----------------------------------------------------------------------------
(* Display, dirty tiles and frames                                         *)

\* client sessions the listener may accept
NClients == 2

Clients == 1..NClients

\* the display mode setup_capture reported
Display == [width |-> 256, height |-> 64]

TILE_SIZE == 64

\* BufWriter::with_capacity(65536, writer)
WRITER_BUFFER == 65536

\* fast_request_count >= 3 switches to polling
FAST_REQUEST_THRESHOLD == 3

\* capture failures the device may produce in one run
MaxCaptureErrors == 1

\* messages the clients send in one run
MaxMessages == 4

\* update requests a client sends ahead of the writer
MaxPendingUpdates == 2

DivCeil(a, b) == (a + b - 1) \div b

Min(a, b) == IF a < b THEN a ELSE b

\* DirtyTiles::new
tiles_x == DivCeil(Display.width, TILE_SIZE)

tiles_y == DivCeil(Display.height, TILE_SIZE)

Tiles == 0..(tiles_x * tiles_y - 1)

\* the DirtyRect drain_to_rects pushes for tile idx
TileRect(idx) ==
    LET x0 == (idx % tiles_x) * TILE_SIZE
        y0 == (idx \div tiles_x) * TILE_SIZE
    IN  [x |-> x0, y |-> y0,
         width |-> Min(TILE_SIZE, Display.width - x0),
         height |-> Min(TILE_SIZE, Display.height - y0)]

RECURSIVE RectsFrom(_, _)
RectsFrom(bits, idx) ==
    IF idx >= tiles_x * tiles_y THEN <<>>
    ELSE (IF idx \in bits THEN <<TileRect(idx)>> ELSE <<>>) \o RectsFrom(bits, idx + 1)

\* DirtyTiles::drain_to_rects: the rects of the bits swapped out, in tile order
drain_to_rects(bits) == RectsFrom(bits, 0)

\* the rect of a non-incremental update
FullRect == [x |-> 0, y |-> 0, width |-> Display.width, height |-> Display.height]

\* screen contents, each given by the set of tiles that differ from the
\* first one
FrameSamples == { {}, {0} }

\* copy_rows_incremental: the tiles whose bytes differ between the previous
\* frame and the mapped buffer
copy_rows_incremental(dst, src) == (dst \ src) \cup (src \ dst)

\* capture(force): None when no tile changed and force is false
CaptureResult(prev, src, forced) ==
    IF forced \/ copy_rows_incremental(prev, src) # {}
    THEN [some |-> TRUE, data |-> src]
    ELSE [some |-> FALSE, data |-> {}]

-----------------------------------------------------------------------------
(* FramebufferUpdate messages                                              *)

\* type 0, padding 0, number of rects
UpdateHeader(n) == <<0, 0>> \o U16BE(n)

\* x, y, width, height, encoding 0
RectHeader(r) ==
    U16BE(r.x) \o U16BE(r.y) \o U16BE(r.width) \o U16BE(r.height) \o <<0, 0, 0, 0>>

\* the number of pixel bytes written for a rect
RectPixelBytes(r, pf) ==
    r.width * r.height * (IF matches_server_default(pf) THEN 4 ELSE BytesPerPixel(pf))

\* UpdateRects answering every request with the full frame when nothing is dirty
UpdateRects_FullWhenClean(incremental, drained) ==
    IF incremental /\ drained # <<>> THEN drained ELSE <<FullRect>>

\* the rects of the update: the drained tiles, or the full frame
UpdateRects(incremental, drained) ==
    IF incremental THEN drained ELSE <<FullRect>>

\* the rect headers and pixel byte counts of the message, in order
RectsOnWire(rects, pf) ==
    [i \in 1..Len(rects) |-> [hdr |-> RectHeader(rects[i]),
                              pixels |-> RectPixelBytes(rects[i], pf)]]

RECURSIVE SumPixels(_)
SumPixels(rs) == IF rs = <<>> THEN 0 ELSE 12 + Head(rs).pixels + SumPixels(Tail(rs))

\* bytes handed to the BufWriter for the message
UpdateLength(rects, pf) == 4 + SumPixels(RectsOnWire(rects, pf))

\* whether encoding the rects panics in convert_row_into
EncodePanics(rects, pf, debug) ==
    /\ rects # <<>>
    /\ ~matches_server_default(pf)
    /\ PixelPanics(pf, debug)

\* no message written yet
NoUpdate == [to |-> 0, head |-> <<>>, rects |-> <<>>, frame |-> {},
             incremental |-> FALSE, nonincr |-> FALSE]

\* messages a client sends in a session: SetPixelFormat (64 bpp),
\* SetEncodings, FramebufferUpdateRequest (incremental 0 and 1), KeyEvent,
\* and the unknown type 7
SessionMessages ==
    { <<0, 3, 3, 3, 64, 24, 0, 1, 0, 255, 0, 255, 0, 255, 16, 8, 0, 3, 3, 3>>,
      <<2, 0, 0, 0>>,
      <<3, 0, 0, 0, 0, 0, 1, 0, 0, 64>>,
      <<3, 1, 0, 0, 0, 0, 1, 0, 0, 64>>,
      <<4, 1, 0, 0, 0, 0, 0, 97>>,
      <<7, 4, 1, 0, 0, 0, 0, 0, 97>> }

-----------------------------------------------------------------------------
(* Client sessions, the capture scheduler and the input dispatcher         *)

\* dropping update_req_rx of every session
DropReceiver_All(q, c) == [d \in Clients |-> <<>>]

\* dropping update_req_rx of session c: what was queued is discarded
DropReceiver(q, c) == [q EXCEPT ![c] = <<>>]

\* main before any client connects: the channels are created, capture_loop
\* and input_loop are spawned, the listener is bound, and the slot holds the
\* frame setup_capture produced
SsIdle ==
    /\ cs = [c \in Clients |-> "none"]
    /\ rpc = [c \in Clients |-> "idle"]
    /\ update_req = [c \in Clients |-> <<>>]
    /\ wpc = [c \in Clients |-> "recv"]
    /\ winc = [c \in Clients |-> FALSE]
    /\ wframe = [c \in Clients |-> {}]
    /\ fresh = [c \in Clients |-> FALSE]
    /\ pixel_format = [c \in Clients |-> server_default]
    /\ nonincr = [c \in Clients |-> FALSE]
    /\ dirty_tiles = {}
    /\ frame_slot = {}
    /\ prev_frame = {}
    /\ capture_req = 0
    /\ spc = "wait"
    /\ mode = "OnDemand"
    /\ fast_request_count = 0
    /\ last_request_time = FALSE
    /\ force = FALSE
    /\ captured = {}
    /\ capture_errors = 0
    /\ input_q = <<>>
    /\ sent = 0
    /\ out = NoUpdate

SsFrame == UNCHANGED <<hsVars, cvVars, rdVars, extVars>>

clVars == <<cs, rpc, update_req, wpc, winc, wframe, fresh, pixel_format, nonincr>>

schedVars == <<spc, mode, fast_request_count, last_request_time, force, captured,
               capture_errors, capture_req>>

frameVars == <<dirty_tiles, frame_slot, prev_frame>>

\* the session's locals are dropped with its future
EndSession(c) ==
    /\ cs' = [cs EXCEPT ![c] = "ended"]
    /\ update_req' = DropReceiver(update_req, c)
    /\ wpc' = [wpc EXCEPT ![c] = "recv"]
    /\ winc' = [winc EXCEPT ![c] = FALSE]
    /\ wframe' = [wframe EXCEPT ![c] = {}]
    /\ nonincr' = [nonincr EXCEPT ![c] = FALSE]

\* listener.accept(): handle_client is spawned with clones of the channels
Accept(c) ==
    /\ cs[c] = "none"
    /\ cs' = [cs EXCEPT ![c] = "handshake"]
    /\ UNCHANGED <<rpc, update_req, wpc, winc, wframe, fresh, pixel_format, nonincr>>
    /\ UNCHANGED <<schedVars, frameVars, input_q, sent>>
    /\ out' = NoUpdate
    /\ SsFrame

\* the handshake completed: the session's channels are created and the
\* reader is spawned
HandshakeDone(c) ==
    /\ cs[c] = "handshake"
    /\ cs' = [cs EXCEPT ![c] = "loop"]
    /\ rpc' = [rpc EXCEPT ![c] = "run"]
    /\ update_req' = [update_req EXCEPT ![c] = <<>>]
    /\ pixel_format' = [pixel_format EXCEPT ![c] = server_default]
    /\ wpc' = [wpc EXCEPT ![c] = "recv"]
    /\ UNCHANGED <<winc, wframe, fresh, nonincr>>
    /\ UNCHANGED <<schedVars, frameVars, input_q, sent>>
    /\ out' = NoUpdate
    /\ SsFrame

\* the handshake returned early or with an error (unsupported selection,
\* failed authentication, short read)
HandshakeFail(c) ==
    /\ cs[c] = "handshake"
    /\ EndSession(c)
    /\ UNCHANGED <<rpc, fresh, pixel_format>>
    /\ UNCHANGED <<schedVars, frameVars, input_q, sent>>
    /\ out' = NoUpdate
    /\ SsFrame

\* read_client_messages reads one message the client sent
ReaderHandle(c) ==
    /\ rpc[c] = "run"
    /\ sent < MaxMessages
    /\ sent' = sent + 1
    /\ \E m \in SessionMessages :
        IF KnownType(m[1])
        THEN /\ IF cs[c] = "loop"
                THEN /\ Len(update_req[c]) + Len(ForwardedUpdate(m))
                          <= Min(MaxPendingUpdates, UPDATE_CHANNEL_CAPACITY)
                     /\ update_req' = [update_req EXCEPT ![c] = @ \o ForwardedUpdate(m)]
                     /\ pixel_format' = [pixel_format EXCEPT ![c] = PixelFormatAfter(m, @)]
                ELSE UNCHANGED <<update_req, pixel_format>>
             /\ Len(input_q) + Len(ForwardedInput(m)) <= MaxInputQueue
             /\ input_q' = input_q \o ForwardedInput(m)
             /\ UNCHANGED rpc
        ELSE /\ rpc' = [rpc EXCEPT ![c] = "done"]
             /\ UNCHANGED <<update_req, pixel_format, input_q>>
    /\ UNCHANGED <<cs, wpc, winc, wframe, fresh, nonincr>>
    /\ UNCHANGED <<schedVars, frameVars>>
    /\ out' = NoUpdate
    /\ SsFrame

\* the client closes the connection: read_exact fails
ReaderEof(c) ==
    /\ rpc[c] = "run"
    /\ rpc' = [rpc EXCEPT ![c] = "done"]
    /\ UNCHANGED <<cs, update_req, wpc, winc, wframe, fresh, pixel_format, nonincr>>
    /\ UNCHANGED <<schedVars, frameVars, input_q, sent>>
    /\ out' = NoUpdate
    /\ SsFrame

\* select!: the reader's handle resolved, or update_req_rx.recv() returned None
SessionEndReader(c) ==
    /\ cs[c] = "loop"
    /\ rpc[c] = "done"
    /\ EndSession(c)
    /\ UNCHANGED <<rpc, fresh, pixel_format>>
    /\ UNCHANGED <<schedVars, frameVars, input_q, sent>>
    /\ out' = NoUpdate
    /\ SsFrame

\* update_req_rx.recv(); an incremental request signals the scheduler
WriterRecv(c) ==
    /\ cs[c] = "loop"
    /\ wpc[c] = "recv"
    /\ update_req[c] # <<>>
    /\ LET inc == Head(update_req[c])
       IN  /\ update_req' = [update_req EXCEPT ![c] = Tail(@)]
           /\ winc' = [winc EXCEPT ![c] = inc]
           /\ nonincr' = [nonincr EXCEPT ![c] = ~inc]
           /\ capture_req' = IF inc THEN capture_req + 1 ELSE capture_req
           /\ wpc' = [wpc EXCEPT ![c] = IF inc THEN "changed" ELSE "borrow"]
    /\ UNCHANGED <<cs, rpc, wframe, fresh, pixel_format>>
    /\ UNCHANGED <<spc, mode, fast_request_count, last_request_time, force, captured,
                   capture_errors>>
    /\ UNCHANGED <<frameVars, input_q, sent>>
    /\ out' = NoUpdate
    /\ SsFrame

\* frame_rx.changed() returns once the slot holds a version not yet seen
WriterChanged(c) ==
    /\ cs[c] = "loop"
    /\ wpc[c] = "changed"
    /\ fresh[c]
    /\ fresh' = [fresh EXCEPT ![c] = FALSE]
    /\ wpc' = [wpc EXCEPT ![c] = "borrow"]
    /\ UNCHANGED <<cs, rpc, update_req, winc, wframe, pixel_format, nonincr>>
    /\ UNCHANGED <<schedVars, frameVars, input_q, sent>>
    /\ out' = NoUpdate
    /\ SsFrame

\* the queued requests are discarded and the slot is borrowed
WriterBorrow(c) ==
    /\ cs[c] = "loop"
    /\ wpc[c] = "borrow"
    /\ update_req' = [update_req EXCEPT ![c] = <<>>]
    /\ nonincr' = [nonincr EXCEPT ![c] =
                      @ \/ \E i \in 1..Len(update_req[c]) : ~update_req[c][i]]
    /\ wframe' = [wframe EXCEPT ![c] = frame_slot]
    /\ fresh' = [fresh EXCEPT ![c] = FALSE]
    /\ wpc' = [wpc EXCEPT ![c] = "emit"]
    /\ UNCHANGED <<cs, rpc, winc, pixel_format>>
    /\ UNCHANGED <<schedVars, frameVars, input_q, sent>>
    /\ out' = NoUpdate
    /\ SsFrame

\* the tiles are drained and the message is written and flushed
WriterEmit(c) ==
    /\ cs[c] = "loop"
    /\ wpc[c] = "emit"
    /\ LET rects == UpdateRects(winc[c], drain_to_rects(dirty_tiles))
           pf == pixel_format[c]
       IN  /\ ~EncodePanics(rects, pf, cvDebug)
           /\ out' = [to |-> c,
                      head |-> UpdateHeader(Len(rects)),
                      rects |-> RectsOnWire(rects, pf),
                      frame |-> IF rects = <<>> THEN {} ELSE wframe[c],
                      incremental |-> winc[c],
                      nonincr |-> nonincr[c]]
    /\ dirty_tiles' = {}
    /\ wpc' = [wpc EXCEPT ![c] = "recv"]
    /\ wframe' = [wframe EXCEPT ![c] = {}]
    /\ winc' = [winc EXCEPT ![c] = FALSE]
    /\ nonincr' = [nonincr EXCEPT ![c] = FALSE]
    /\ UNCHANGED <<cs, rpc, update_req, fresh, pixel_format>>
    /\ UNCHANGED <<schedVars, frame_slot, prev_frame, input_q, sent>>
    /\ SsFrame

\* a write_all fails once the message has outgrown the BufWriter: the tiles
\* are drained already, handle_client returns the error and the reader
\* task stays behind
WriterIoError(c) ==
    /\ cs[c] = "loop"
    /\ wpc[c] = "emit"
    /\ LET rects == UpdateRects(winc[c], drain_to_rects(dirty_tiles))
       IN  /\ ~EncodePanics(rects, pixel_format[c], cvDebug)
           /\ UpdateLength(rects, pixel_format[c]) > WRITER_BUFFER
    /\ dirty_tiles' = {}
    /\ EndSession(c)
    /\ UNCHANGED <<rpc, fresh, pixel_format>>
    /\ UNCHANGED <<schedVars, frame_slot, prev_frame, input_q, sent>>
    /\ out' = NoUpdate
    /\ SsFrame

\* convert_row_into panics on the first row: the task unwinds with the
\* message still in the BufWriter
WriterPanic(c) ==
    /\ cs[c] = "loop"
    /\ wpc[c] = "emit"
    /\ EncodePanics(UpdateRects(winc[c], drain_to_rects(dirty_tiles)), pixel_format[c], cvDebug)
    /\ dirty_tiles' = {}
    /\ EndSession(c)
    /\ UNCHANGED <<rpc, fresh, pixel_format>>
    /\ UNCHANGED <<schedVars, frame_slot, prev_frame, input_q, sent>>
    /\ out' = NoUpdate
    /\ SsFrame

\* capture_req_rx.recv_timeout returned Ok: the request interval is
\* classified, the queue is drained and a forced capture follows
SchedRecv ==
    /\ spc = "wait"
    /\ capture_req > 0
    /\ \E quick \in BOOLEAN :
        IF last_request_time /\ quick
        THEN /\ fast_request_count' = Min(fast_request_count + 1, FAST_REQUEST_THRESHOLD)
             /\ mode' = IF fast_request_count + 1 >= FAST_REQUEST_THRESHOLD
                        THEN "Polling" ELSE mode
        ELSE /\ fast_request_count' = IF last_request_time THEN 0 ELSE fast_request_count
             /\ UNCHANGED mode
    /\ last_request_time' = TRUE
    /\ capture_req' = 0
    /\ force' = TRUE
    /\ spc' = "capture"
    /\ UNCHANGED <<captured, capture_errors>>
    /\ UNCHANGED <<clVars, frameVars, input_q, sent>>
    /\ out' = NoUpdate
    /\ SsFrame

\* recv_timeout timed out: polling captures without force, or falls back
\* to on-demand after 500 ms without a request; on-demand only looks at the
\* shutdown flag
SchedTimeout ==
    /\ spc = "wait"
    /\ capture_req = 0
    /\ IF mode = "Polling" /\ last_request_time
       THEN \E late \in BOOLEAN :
               IF late
               THEN /\ mode' = "OnDemand"
                    /\ fast_request_count' = 0
                    /\ UNCHANGED <<spc, force>>
               ELSE /\ spc' = "capture"
                    /\ force' = FALSE
                    /\ UNCHANGED <<mode, fast_request_count>>
       ELSE UNCHANGED <<spc, force, mode, fast_request_count>>
    /\ UNCHANGED <<last_request_time, captured, capture_errors, capture_req>>
    /\ UNCHANGED <<clVars, frameVars, input_q, sent>>
    /\ out' = NoUpdate
    /\ SsFrame

\* capture_fn(force) returned Ok: the tiles that differ between the previous
\* frame and what the display shows now are marked, and the frame is handed
\* on unless nothing changed and force is false
SchedCaptureOk ==
    /\ spc = "capture"
    /\ \E src \in FrameSamples :
        LET r == CaptureResult(prev_frame, src, force)
        IN  /\ dirty_tiles' = dirty_tiles \cup copy_rows_incremental(prev_frame, src)
            /\ prev_frame' = src
            /\ captured' = r.data
            /\ spc' = IF r.some THEN "publish" ELSE "wait"
    /\ force' = FALSE
    /\ UNCHANGED <<mode, fast_request_count, last_request_time, capture_errors, capture_req>>
    /\ UNCHANGED <<clVars, frame_slot, input_q, sent>>
    /\ out' = NoUpdate
    /\ SsFrame

\* capture_fn(force) returned Err: a warning is logged
SchedCaptureErr ==
    /\ spc = "capture"
    /\ capture_errors < MaxCaptureErrors
    /\ capture_errors' = capture_errors + 1
    /\ spc' = "wait"
    /\ force' = FALSE
    /\ UNCHANGED <<mode, fast_request_count, last_request_time, captured, capture_req>>
    /\ UNCHANGED <<clVars, frameVars, input_q, sent>>
    /\ out' = NoUpdate
    /\ SsFrame

\* frame_tx.send: the slot takes the frame and every receiver sees a change
SchedPublish ==
    /\ spc = "publish"
    /\ frame_slot' = captured
    /\ fresh' = [c \in Clients |-> TRUE]
    /\ captured' = {}
    /\ spc' = "wait"
    /\ UNCHANGED <<mode, fast_request_count, last_request_time, force, capture_errors,
                   capture_req>>
    /\ UNCHANGED <<cs, rpc, update_req, wpc, winc, wframe, pixel_format, nonincr>>
    /\ UNCHANGED <<dirty_tiles, prev_frame, input_q, sent>>
    /\ out' = NoUpdate
    /\ SsFrame

\* input_loop takes the next event
InputRecv ==
    /\ input_q # <<>>
    /\ input_q' = Tail(input_q)
    /\ UNCHANGED <<clVars, schedVars, frameVars, sent>>
    /\ out' = NoUpdate
    /\ SsFrame

SchedNext ==
    \/ SchedRecv
    \/ SchedTimeout
    \/ SchedCaptureOk
    \/ SchedCaptureErr
    \/ SchedPublish

ClientNext(c) ==
    \/ Accept(c)
    \/ HandshakeDone(c)
    \/ HandshakeFail(c)
    \/ ReaderHandle(c)
    \/ ReaderEof(c)
    \/ SessionEndReader(c)
    \/ WriterRecv(c)
    \/ WriterChanged(c)
    \/ WriterBorrow(c)
    \/ WriterEmit(c)
    \/ WriterIoError(c)
    \/ WriterPanic(c)

Next ==
    \/ \E c \in Clients : ClientNext(c)
    \/ SchedNext
    \/ InputRecv

-----------------------------------------------------------------------------
(* The frame slot: capture_loop and do_capture publishing into the watch   *)
(* channel, each writer waiting on it and borrowing from it.  Frames carry *)
(* the position of their capture in the capture order.                     *)

MaxFrames == 5

Backends == {"drm", "fbdev"}

NoFrame == [seq |-> -1, data |-> {}]

\* the frame main captures before the listener starts (capture(true))
InitialFrame == [seq |-> 0, data |-> {}]

\* the two capture_fn closures: DRM hands force to the capturer, fbdev
\* ignores it and returns every frame it reads
capture_fn(backend, prev, src, forced) ==
    IF backend = "drm"
    THEN CaptureResult(prev, src, forced)
    ELSE [some |-> TRUE, data |-> src]

borrow_and_update_Stale(slot) == IF slot.seq > 1 THEN InitialFrame ELSE slot

\* frame_rx.borrow_and_update().clone(): the Arc in the slot
borrow_and_update(slot) == slot

FsIdle ==
    /\ fsBackend = "drm"
    /\ fsPc = "wait"
    /\ fsForce = FALSE
    /\ fsMode = "OnDemand"
    /\ fsFast = 0
    /\ fsLastReq = FALSE
    /\ fsReq = 0
    /\ fsSeq = 0
    /\ fsPrev = {}
    /\ fsSrc = {}
    /\ fsData = NoFrame
    /\ fsSlot = InitialFrame
    /\ fsErrors = 0
    /\ fsSeen = [c \in Clients |-> 0]
    /\ fsHeld = [c \in Clients |-> NoFrame]
    /\ fsUsed = [c \in Clients |-> NoFrame]
    /\ fsWpc = [c \in Clients |-> "recv"]

\* main picks the backend: DRM if it opens, fbdev otherwise
FsInit ==
    /\ fsBackend \in Backends
    /\ fsPc = "wait"
    /\ fsForce = FALSE
    /\ fsMode = "OnDemand"
    /\ fsFast = 0
    /\ fsLastReq = FALSE
    /\ fsReq = 0
    /\ fsSeq = 0
    /\ fsPrev = {}
    /\ fsSrc = {}
    /\ fsData = NoFrame
    /\ fsSlot = InitialFrame
    /\ fsErrors = 0
    /\ fsSeen = [c \in Clients |-> 0]
    /\ fsHeld = [c \in Clients |-> NoFrame]
    /\ fsUsed = [c \in Clients |-> NoFrame]
    /\ fsWpc = [c \in Clients |-> "recv"]

FsFrame == UNCHANGED <<hsVars, cvVars, rdVars, ssVars, inVars, dtVars, pxVars, moreVars>>

fsSched == <<fsPc, fsForce, fsMode, fsFast, fsLastReq, fsSeq, fsPrev, fsSrc, fsData,
             fsErrors>>

\* update_req_rx.recv() returned a request; an incremental one asks for a
\* capture and waits for the slot to change
FsWriterRecv(c) ==
    /\ fsWpc[c] = "recv"
    /\ \E incremental \in BOOLEAN :
        /\ fsReq' = IF incremental THEN fsReq + 1 ELSE fsReq
        /\ fsWpc' = [fsWpc EXCEPT ![c] = IF incremental THEN "changed" ELSE "borrow"]
    /\ UNCHANGED <<fsBackend, fsSched, fsSlot, fsSeen, fsHeld, fsUsed>>
    /\ FsFrame

\* frame_rx.changed() returns once the slot's version is not the one seen
FsWriterChanged(c) ==
    /\ fsWpc[c] = "changed"
    /\ fsSeen[c] # fsSlot.seq
    /\ fsSeen' = [fsSeen EXCEPT ![c] = fsSlot.seq]
    /\ fsWpc' = [fsWpc EXCEPT ![c] = "borrow"]
    /\ UNCHANGED <<fsBackend, fsSched, fsReq, fsSlot, fsHeld, fsUsed>>
    /\ FsFrame

FsWriterBorrow(c) ==
    /\ fsWpc[c] = "borrow"
    /\ fsHeld' = [fsHeld EXCEPT ![c] = borrow_and_update(fsSlot)]
    /\ fsSeen' = [fsSeen EXCEPT ![c] = fsSlot.seq]
    /\ fsWpc' = [fsWpc EXCEPT ![c] = "emit"]
    /\ UNCHANGED <<fsBackend, fsSched, fsReq, fsSlot, fsUsed>>
    /\ FsFrame

\* the update is written from the borrowed frame, which is then dropped
FsWriterEmit(c) ==
    /\ fsWpc[c] = "emit"
    /\ fsUsed' = [fsUsed EXCEPT ![c] = fsHeld[c]]
    /\ fsHeld' = [fsHeld EXCEPT ![c] = NoFrame]
    /\ fsWpc' = [fsWpc EXCEPT ![c] = "recv"]
    /\ UNCHANGED <<fsBackend, fsSched, fsReq, fsSlot, fsSeen>>
    /\ FsFrame

\* capture_req_rx.recv_timeout returned a request
FsSchedRecv ==
    /\ fsPc = "wait"
    /\ fsReq > 0
    /\ \E quick \in BOOLEAN :
        IF fsLastReq /\ quick
        THEN /\ fsFast' = Min(fsFast + 1, FAST_REQUEST_THRESHOLD)
             /\ fsMode' = IF fsFast + 1 >= FAST_REQUEST_THRESHOLD
                          THEN "Polling" ELSE fsMode
        ELSE /\ fsFast' = IF fsLastReq THEN 0 ELSE fsFast
             /\ UNCHANGED fsMode
    /\ fsLastReq' = TRUE
    /\ fsReq' = 0
    /\ fsForce' = TRUE
    /\ fsPc' = "capture"
    /\ UNCHANGED <<fsBackend, fsSeq, fsPrev, fsSrc, fsData, fsErrors, fsSlot, fsSeen,
                   fsHeld, fsUsed, fsWpc>>
    /\ FsFrame

\* recv_timeout timed out
FsSchedTimeout ==
    /\ fsPc = "wait"
    /\ fsReq = 0
    /\ fsMode = "Polling"
    /\ fsLastReq
    /\ \E late \in BOOLEAN :
        IF late
        THEN /\ fsMode' = "OnDemand"
             /\ fsFast' = 0
             /\ UNCHANGED <<fsPc, fsForce>>
        ELSE /\ fsPc' = "capture"
             /\ fsForce' = FALSE
             /\ UNCHANGED <<fsMode, fsFast>>
    /\ UNCHANGED <<fsBackend, fsLastReq, fsReq, fsSeq, fsPrev, fsSrc, fsData, fsErrors,
                   fsSlot, fsSeen, fsHeld, fsUsed, fsWpc>>
    /\ FsFrame

\* capture_fn(force) returned Ok: Some(data) goes on to frame_tx.send,
\* None leaves the slot alone
FsCaptureOk ==
    /\ fsPc = "capture"
    /\ fsSeq < MaxFrames
    /\ \E src \in FrameSamples :
        LET r == capture_fn(fsBackend, fsPrev, src, fsForce)
        IN  /\ fsSrc' = src
            /\ IF r.some
               THEN /\ fsSeq' = fsSeq + 1
                    /\ fsData' = [seq |-> fsSeq + 1, data |-> r.data]
                    /\ fsPrev' = r.data
                    /\ fsPc' = "publish"
               ELSE /\ UNCHANGED <<fsSeq, fsData, fsPrev>>
                    /\ fsPc' = "wait"
    /\ fsForce' = FALSE
    /\ UNCHANGED <<fsBackend, fsMode, fsFast, fsLastReq, fsReq, fsErrors, fsSlot,
                   fsSeen, fsHeld, fsUsed, fsWpc>>
    /\ FsFrame

\* capture_fn(force) returned Err
FsCaptureErr ==
    /\ fsPc = "capture"
    /\ fsErrors < MaxCaptureErrors
    /\ fsErrors' = fsErrors + 1
    /\ fsPc' = "wait"
    /\ fsForce' = FALSE
    /\ UNCHANGED <<fsBackend, fsMode, fsFast, fsLastReq, fsReq, fsSeq, fsPrev, fsSrc,
                   fsData, fsSlot, fsSeen, fsHeld, fsUsed, fsWpc>>
    /\ FsFrame

\* frame_tx.send(Arc::new(data))
FsPublish ==
    /\ fsPc = "publish"
    /\ fsSlot' = fsData
    /\ fsData' = NoFrame
    /\ fsPc' = "wait"
    /\ UNCHANGED <<fsBackend, fsForce, fsMode, fsFast, fsLastReq, fsReq, fsSeq, fsPrev,
                   fsSrc, fsErrors, fsSeen, fsHeld, fsUsed, fsWpc>>
    /\ FsFrame

FsNext ==
    \/ \E c \in Clients :
        \/ FsWriterRecv(c)
        \/ FsWriterChanged(c)
        \/ FsWriterBorrow(c)
        \/ FsWriterEmit(c)
    \/ FsSchedRecv
    \/ FsSchedTimeout
    \/ FsCaptureOk
    \/ FsCaptureErr
    \/ FsPublish

-----------------------------------------------------------------------------
(* Input: the readers forwarding key and pointer events to input_loop,     *)
(* which applies them to the virtual touchscreen and keyboard.             *)

INPUT_CHANNEL_CAPACITY == 256

MaxInputChan == 2

MaxEvents == 3

Pointer(button_mask, x, y) ==
    [kind |-> "Pointer", down |-> FALSE, keysym |-> 0,
     button_mask |-> button_mask, x |-> x, y |-> y]

Key(down, keysym) ==
    [kind |-> "Key", down |-> down, keysym |-> keysym,
     button_mask |-> 0, x |-> 0, y |-> 0]

\* what a client sends: a press, a drag, a release, an event with only
\* another button held, a key with a mapping and one without
EventSamples ==
    { Pointer(1, 10, 10), Pointer(1, 20, 20), Pointer(0, 20, 20), Pointer(4, 10, 10),
      Key(TRUE, 97), Key(TRUE, 65027) }

NoKey == -1

\* keysym_to_linux_key, for the keysyms above and their neighbours:
\* Return, 'a', 'A'; everything the match does not list is None
keysym_to_linux_key(keysym) ==
    CASE keysym = 65293 -> 28
      [] keysym = 97 -> 30
      [] keysym = 65 -> 30
      [] OTHER -> NoKey

touch_down(id, x, y) ==
    << <<"ABS_MT_SLOT", 0>>, <<"ABS_MT_TRACKING_ID", id>>, <<"ABS_MT_POSITION_X", x>>,
       <<"ABS_MT_POSITION_Y", y>>, <<"BTN_TOUCH", 1>>, <<"SYN_REPORT", 0>> >>

touch_move(x, y) ==
    << <<"ABS_MT_SLOT", 0>>, <<"ABS_MT_POSITION_X", x>>, <<"ABS_MT_POSITION_Y", y>>,
       <<"SYN_REPORT", 0>> >>

touch_up ==
    << <<"ABS_MT_SLOT", 0>>, <<"ABS_MT_TRACKING_ID", -1>>, <<"BTN_TOUCH", 0>>,
       <<"SYN_REPORT", 0>> >>

key_events(code, down) ==
    << <<"EV_KEY", code, IF down THEN 1 ELSE 0>>, <<"SYN_REPORT", 0>> >>

Touching_AnyButton(button_mask) == button_mask # 0

\* (button_mask & 1) != 0
Touching(button_mask) == button_mask % 2 = 1

\* an id that is only incremented
NextTrackingId_NoWrap(id) == id + 1

\* (self.tracking_id + 1) % 65536
NextTrackingId(id) == (id + 1) % 65536

\* VirtualTouchscreen::handle_pointer on the state st; write_ok is whether
\* the uinput write, if one is made, succeeds.  A failed write returns
\* through `?` before is_touching, last_x and last_y are assigned.
handle_pointer(st, button_mask, x, y, write_ok) ==
    LET touching == Touching(button_mask)
    IN  IF touching /\ ~st.is_touching
        THEN LET id == NextTrackingId(st.tracking_id)
             IN  IF write_ok
                 THEN [st |-> [tracking_id |-> id, is_touching |-> TRUE,
                               last_x |-> x, last_y |-> y],
                       report |-> touch_down(id, x, y), ok |-> TRUE]
                 ELSE [st |-> [st EXCEPT !.tracking_id = id],
                       report |-> <<>>, ok |-> FALSE]
        ELSE IF touching /\ st.is_touching /\ (x # st.last_x \/ y # st.last_y)
        THEN IF write_ok
             THEN [st |-> [st EXCEPT !.last_x = x, !.last_y = y],
                   report |-> touch_move(x, y), ok |-> TRUE]
             ELSE [st |-> st, report |-> <<>>, ok |-> FALSE]
        ELSE IF ~touching /\ st.is_touching
        THEN IF write_ok
             THEN [st |-> [st EXCEPT !.is_touching = FALSE, !.last_x = x, !.last_y = y],
                   report |-> touch_up, ok |-> TRUE]
             ELSE [st |-> st, report |-> <<>>, ok |-> FALSE]
        ELSE [st |-> [st EXCEPT !.last_x = x, !.last_y = y],
              report |-> <<>>, ok |-> TRUE]

\* VirtualKeyboard::handle_key
handle_key(down, keysym, write_ok) ==
    LET code == keysym_to_linux_key(keysym)
    IN  IF code = NoKey THEN [report |-> <<>>, ok |-> TRUE]
        ELSE IF write_ok THEN [report |-> key_events(code, down), ok |-> TRUE]
        ELSE [report |-> <<>>, ok |-> FALSE]

LoopAfter_StopOnError(ok) == IF ok THEN "loop" ELSE "stopped"

\* `if let Err(e) = ... { tracing::warn!(..) }`: the loop goes on to the
\* next recv whatever the handler returned
LoopAfter(ok) == "loop"

NewTouch == [tracking_id |-> 0, is_touching |-> FALSE, last_x |-> 0, last_y |-> 0]

InIdle ==
    /\ inWire = [c \in Clients |-> <<>>]
    /\ inSent = [c \in Clients |-> <<>>]
    /\ inChan = <<>>
    /\ inHandled = [c \in Clients |-> <<>>]
    /\ inPc = "idle"
    /\ inTouch = FALSE
    /\ inKeyboard = FALSE
    /\ touch = NewTouch
    /\ inReport = <<>>
    /\ inResult = "none"
    /\ inReader = [c \in Clients |-> "run"]

\* main has spawned input_loop; the clients are in their message loops
InInit ==
    /\ inWire = [c \in Clients |-> <<>>]
    /\ inSent = [c \in Clients |-> <<>>]
    /\ inChan = <<>>
    /\ inHandled = [c \in Clients |-> <<>>]
    /\ inPc = "create"
    /\ inTouch = FALSE
    /\ inKeyboard = FALSE
    /\ touch = NewTouch
    /\ inReport = <<>>
    /\ inResult = "none"
    /\ inReader = [c \in Clients |-> "run"]

InFrame == UNCHANGED <<hsVars, cvVars, rdVars, ssVars, fsVars, dtVars, pxVars, moreVars>>

inDevices == <<inPc, inTouch, inKeyboard, touch>>

RECURSIVE EventsFrom(_)
EventsFrom(cset) ==
    IF cset = {} THEN 0
    ELSE LET c == CHOOSE d \in cset : TRUE
         IN  Len(inSent[c]) + EventsFrom(cset \ {c})

EventsSent == EventsFrom(Clients)

input_tx_send_Front(chan, m) == <<m>> \o chan

\* input_tx.send(event): the mpsc channel queues in arrival order
input_tx_send(chan, m) == Append(chan, m)

\* a client writes a KeyEvent or PointerEvent to its socket
InClientSend(c) ==
    /\ inReader[c] = "run"
    /\ EventsSent < MaxEvents
    /\ \E ev \in EventSamples :
        /\ inWire' = [inWire EXCEPT ![c] = Append(@, ev)]
        /\ inSent' = [inSent EXCEPT ![c] = Append(@, ev)]
    /\ inReport' = <<>>
    /\ inResult' = "none"
    /\ UNCHANGED <<inChan, inHandled, inDevices, inReader>>
    /\ InFrame

\* read_client_messages reads the next message and awaits input_tx.send,
\* which completes once the channel has room
InReaderForward(c) ==
    /\ inReader[c] = "run"
    /\ inWire[c] # <<>>
    /\ Len(inChan) < Min(MaxInputChan, INPUT_CHANNEL_CAPACITY)
    /\ inChan' = input_tx_send(inChan, [from |-> c, ev |-> Head(inWire[c])])
    /\ inWire' = [inWire EXCEPT ![c] = Tail(@)]
    /\ inReport' = <<>>
    /\ inResult' = "none"
    /\ UNCHANGED <<inSent, inHandled, inDevices, inReader>>
    /\ InFrame

\* the client disconnects: read_exact fails and the reader returns
InReaderEof(c) ==
    /\ inReader[c] = "run"
    /\ inWire[c] = <<>>
    /\ inReader' = [inReader EXCEPT ![c] = "done"]
    /\ inReport' = <<>>
    /\ inResult' = "none"
    /\ UNCHANGED <<inWire, inSent, inChan, inHandled, inDevices>>
    /\ InFrame

\* input_loop creates the devices; either may fail and is then None
InCreateDevices ==
    /\ inPc = "create"
    /\ \E t \in BOOLEAN, k \in BOOLEAN :
        /\ inTouch' = t
        /\ inKeyboard' = k
    /\ inPc' = "loop"
    /\ inReport' = <<>>
    /\ inResult' = "none"
    /\ UNCHANGED <<inWire, inSent, inChan, inHandled, touch, inReader>>
    /\ InFrame

\* one turn of `while let Some(event) = input_rx.recv().await`
InDispatch ==
    /\ inPc = "loop"
    /\ inChan # <<>>
    /\ LET m == Head(inChan)
           ev == m.ev
       IN  /\ inChan' = Tail(inChan)
           /\ inHandled' = [inHandled EXCEPT ![m.from] = Append(@, ev)]
           /\ \E write_ok \in BOOLEAN :
               IF ev.kind = "Pointer"
               THEN IF inTouch
                    THEN LET r == handle_pointer(touch, ev.button_mask, ev.x, ev.y, write_ok)
                         IN  /\ touch' = r.st
                             /\ inReport' = r.report
                             /\ inResult' = IF r.ok THEN "ok" ELSE "warn"
                             /\ inPc' = LoopAfter(r.ok)
                    ELSE /\ UNCHANGED <<touch, inPc>>
                         /\ inReport' = <<>>
                         /\ inResult' = "nodevice"
               ELSE IF inKeyboard
                    THEN LET r == handle_key(ev.down, ev.keysym, write_ok)
                         IN  /\ UNCHANGED touch
                             /\ inReport' = r.report
                             /\ inResult' = IF r.ok THEN "ok" ELSE "warn"
                             /\ inPc' = LoopAfter(r.ok)
                    ELSE /\ UNCHANGED <<touch, inPc>>
                         /\ inReport' = <<>>
                         /\ inResult' = "nodevice"
    /\ UNCHANGED <<inWire, inSent, inTouch, inKeyboard, inReader>>
    /\ InFrame

InNext ==
    \/ \E c \in Clients :
        \/ InClientSend(c)
        \/ InReaderForward(c)
        \/ InReaderEof(c)
    \/ InCreateDevices
    \/ InDispatch

-----------------------------------------------------------------------------
(* DirtyTiles as the threads see it: eight atomic words, set and set_all   *)
(* by the capture thread, drain_to_rects word by word by the writers.      *)

WORD_BITS == 64

NUM_WORDS == 8

\* display sizes: 4 x 2 tiles in one word, and 66 x 1 tiles over two words,
\* both with clipped edge tiles
GridSamples == { [width |-> 250, height |-> 100], [width |-> 4200, height |-> 64] }

GridTilesX(g) == DivCeil(g.width, TILE_SIZE)

GridTilesY(g) == DivCeil(g.height, TILE_SIZE)

GridTotal(g) == GridTilesX(g) * GridTilesY(g)

WordOf(tile_idx) == tile_idx \div WORD_BITS

WordBits(bits, w) == { t \in bits : WordOf(t) = w }

fetch_or_Store(bits, w, mask) == (bits \ WordBits(bits, w)) \cup mask

\* bits[w].fetch_or(mask): mask holds tile indices of word w
fetch_or(bits, w, mask) == bits \cup mask

\* bits[w].store(u64::MAX)
store_max(bits, w) == bits \cup (w * WORD_BITS .. w * WORD_BITS + WORD_BITS - 1)

swap_zero_Load(bits, w) == bits

\* bits[w].swap(0): what is left in the bitmap
swap_zero(bits, w) == bits \ WordBits(bits, w)

\* the DirtyRect pushed for tile idx of grid g
DirtyRect(g, idx) ==
    LET x0 == (idx % GridTilesX(g)) * TILE_SIZE
        y0 == (idx \div GridTilesX(g)) * TILE_SIZE
    IN  [x |-> x0, y |-> y0,
         width |-> Min(TILE_SIZE, g.width - x0),
         height |-> Min(TILE_SIZE, g.height - y0)]

\* the order in which drain_to_rects visits the tiles: ty outside, tx
\* inside, which is ascending tile index
TileOrder(g) == [i \in 1..GridTotal(g) |-> i - 1]

\* the rects pushed for the tiles whose bit is set in words, in that order
RectsOf(g, words) ==
    LET hit == SelectSeq(TileOrder(g), LAMBDA t : t \in words)
    IN  [k \in 1..Len(hit) |-> DirtyRect(g, hit[k])]

\* tiles the capture thread marks one at a time
SetSamples(g) == { 0, GridTotal(g) - 1 }

NoRects == [by |-> 0, rects |-> <<>>]

DtIdle ==
    /\ dtGrid = [width |-> 250, height |-> 100]
    /\ dtBits = {}
    /\ dtSetAll = -1
    /\ dtPc = [d \in Clients |-> -1]
    /\ dtWords = [d \in Clients |-> {}]
    /\ dtOut = NoRects
    /\ dtWatch = 0
    /\ dtStale = {}
    /\ dtMine = {}
    /\ dtOwed = {}

\* DirtyTiles::new for the display at hand
DtInit ==
    /\ dtGrid \in GridSamples
    /\ dtBits = {}
    /\ dtSetAll = -1
    /\ dtPc = [d \in Clients |-> -1]
    /\ dtWords = [d \in Clients |-> {}]
    /\ dtOut = NoRects
    /\ dtWatch = 0
    /\ dtStale = {}
    /\ dtMine = {}
    /\ dtOwed = {}

DtFrame == UNCHANGED <<hsVars, cvVars, rdVars, ssVars, fsVars, inVars, pxVars, moreVars>>

\* the capture thread has set the tiles in mask: they are owed to a drain,
\* and set again as far as the drains under way are concerned
Marked(mask) ==
    /\ dtOwed' = dtOwed \cup mask
    /\ dtStale' = dtStale \ mask

\* set(tile_idx)
DtSet ==
    /\ dtSetAll = -1
    /\ \E i \in SetSamples(dtGrid) :
        /\ dtBits' = fetch_or(dtBits, WordOf(i), {i})
        /\ Marked({i})
    /\ dtOut' = NoRects
    /\ UNCHANGED <<dtGrid, dtSetAll, dtPc, dtWords, dtWatch, dtMine>>
    /\ DtFrame

\* set_all is called
DtSetAllBegin ==
    /\ dtSetAll = -1
    /\ dtSetAll' = 0
    /\ dtOut' = NoRects
    /\ UNCHANGED <<dtGrid, dtBits, dtPc, dtWords, dtWatch, dtStale, dtMine, dtOwed>>
    /\ DtFrame

\* set_all: one store for a full word, then the fetch_or for the rest
DtSetAllStep ==
    /\ dtSetAll >= 0
    /\ LET total == GridTotal(dtGrid)
           full == total \div WORD_BITS
           remaining == total % WORD_BITS
       IN  IF dtSetAll < full
           THEN /\ dtBits' = store_max(dtBits, dtSetAll)
                /\ Marked(dtSetAll * WORD_BITS .. dtSetAll * WORD_BITS + WORD_BITS - 1)
                /\ dtSetAll' = IF dtSetAll + 1 = full /\ remaining = 0
                               THEN -1 ELSE dtSetAll + 1
           ELSE /\ IF remaining > 0
                   THEN /\ dtBits' = fetch_or(dtBits, full,
                                              full * WORD_BITS .. full * WORD_BITS + remaining - 1)
                        /\ Marked(full * WORD_BITS .. full * WORD_BITS + remaining - 1)
                   ELSE UNCHANGED <<dtBits, dtOwed, dtStale>>
                /\ dtSetAll' = -1
    /\ dtOut' = NoRects
    /\ UNCHANGED <<dtGrid, dtPc, dtWords, dtWatch, dtMine>>
    /\ DtFrame

\* a writer calls drain_to_rects; the call is followed if no other drain is
\* being followed (every position of the other drains occurs at such a call)
DtDrainBegin(d) ==
    /\ dtPc[d] = -1
    /\ dtPc' = [dtPc EXCEPT ![d] = 0]
    /\ IF dtWatch = 0
       THEN /\ dtWatch' = d
            /\ dtStale' = dtBits
            /\ dtMine' = dtBits
       ELSE UNCHANGED <<dtWatch, dtStale, dtMine>>
    /\ dtOut' = NoRects
    /\ UNCHANGED <<dtGrid, dtBits, dtSetAll, dtWords, dtOwed>>
    /\ DtFrame

\* the last word that holds a tile of grid g
LastWord(g) == WordOf(GridTotal(g) - 1)

\* words[i] = bits[i].swap(0).  The swaps of the words past the grid's last
\* word are taken in one step: no set reaches those words, so they swap
\* out nothing wherever they fall among the other threads' steps.
DtDrainSwap(d) ==
    /\ dtPc[d] \in 0..(NUM_WORDS - 1)
    /\ LET w == dtPc[d]
           past == w > LastWord(dtGrid)
           left == IF past THEN { t \in dtBits : WordOf(t) < w } ELSE swap_zero(dtBits, w)
           got == dtBits \ left
       IN  /\ dtBits' = left
           /\ dtWords' = [dtWords EXCEPT ![d] = @ \cup got]
           /\ dtOwed' = dtOwed \ got
           /\ dtMine' = IF d = dtWatch THEN dtMine ELSE dtMine \ got
           /\ dtPc' = [dtPc EXCEPT ![d] = IF past THEN NUM_WORDS ELSE w + 1]
    /\ dtOut' = NoRects
    /\ UNCHANGED <<dtGrid, dtSetAll, dtWatch, dtStale>>
    /\ DtFrame

\* the rects are built from the words and returned
DtDrainReturn(d) ==
    /\ dtPc[d] = NUM_WORDS
    /\ dtOut' = [by |-> d, rects |-> RectsOf(dtGrid, dtWords[d])]
    /\ dtWords' = [dtWords EXCEPT ![d] = {}]
    /\ IF dtWatch = d
       THEN /\ dtWatch' = 0
            /\ dtStale' = {}
            /\ dtMine' = {}
       ELSE UNCHANGED <<dtWatch, dtStale, dtMine>>
    /\ dtPc' = [dtPc EXCEPT ![d] = -1]
    /\ UNCHANGED <<dtGrid, dtBits, dtSetAll, dtOwed>>
    /\ DtFrame

DtNext ==
    \/ DtSet
    \/ DtSetAllBegin
    \/ DtSetAllStep
    \/ \E d \in Clients :
        \/ DtDrainBegin(d)
        \/ DtDrainSwap(d)
        \/ DtDrainReturn(d)

-----------------------------------------------------------------------------
(* The source pixel-format converter: convert_to_bgra_into over a mapped   *)
(* framebuffer of width x height pixels with rows pitch bytes apart.       *)

SupportedFormats == {"Xrgb8888", "Argb8888", "Xbgr8888", "Abgr8888", "Rgb565"}

\* a format the match has no arm for
FormatSamples == SupportedFormats \cup {"Nv12"}

MaxSide == 2

\* bytes per source pixel
SourceBpp(format) == IF format = "Rgb565" THEN 2 ELSE 4

\* source pixels as they lie in memory: X/alpha byte 0x00, 0x80 and 0xFF
SourcePixelSamples ==
    { <<17, 34, 51, 0>>, <<200, 100, 7, 128>>, <<255, 0, 127, 255>> }

PAD_BYTE == 238

PitchPadSamples == {0, 4}

\* a framebuffer whose pixels alternate between a and b, each row followed
\* by pad bytes of padding
RECURSIVE SourceRow(_, _, _, _, _)
SourceRow(format, a, b, x, width) ==
    IF x >= width THEN <<>>
    ELSE SubSeq(IF x % 2 = 0 THEN a ELSE b, 1, SourceBpp(format))
         \o SourceRow(format, a, b, x + 1, width)

RECURSIVE Padding(_)
Padding(n) == IF n = 0 THEN <<>> ELSE <<PAD_BYTE>> \o Padding(n - 1)

RECURSIVE SourceBuffer(_, _, _, _, _, _, _)
SourceBuffer(format, a, b, width, height, pad, y) ==
    IF y >= height THEN <<>>
    ELSE SourceRow(format, IF y % 2 = 0 THEN a ELSE b, IF y % 2 = 0 THEN b ELSE a, 0, width)
         \o Padding(pad)
         \o SourceBuffer(format, a, b, width, height, pad, y + 1)

RECURSIVE CopyRows(_, _, _, _, _)
CopyRows(src, row_bytes, height, pitch, y) ==
    IF y >= height THEN <<>>
    ELSE SubSeq(src, y * pitch + 1, y * pitch + row_bytes)
         \o CopyRows(src, row_bytes, height, pitch, y + 1)

copy_rows_into_WholePitch(src, width, height, pitch) == SubSeq(src, 1, pitch * height)

\* copy_rows_into: one slice when the rows are contiguous, else row by row
copy_rows_into(src, width, height, pitch) ==
    LET row_bytes == width * 4
        total == row_bytes * height
    IN  IF pitch = row_bytes THEN SubSeq(src, 1, total)
        ELSE CopyRows(src, row_bytes, height, pitch, 0)

\* the pixel loops of the swapping converters: pixel x of row y
RECURSIVE SwapRows(_, _, _, _, _, _)
SwapRows(src, width, height, pitch, y, x) ==
    IF y >= height THEN <<>>
    ELSE IF x >= width THEN SwapRows(src, width, height, pitch, y + 1, 0)
    ELSE LET off == y * pitch + x * 4
         IN  <<src[off + 3], src[off + 2], src[off + 1], 255>>
             \o SwapRows(src, width, height, pitch, y, x + 1)

convert_xbgr8888_into(src, width, height, pitch) == SwapRows(src, width, height, pitch, 0, 0)

convert_abgr8888_into(src, width, height, pitch) == SwapRows(src, width, height, pitch, 0, 0)

RECURSIVE Rgb565Rows(_, _, _, _, _, _)
Rgb565Rows(src, width, height, pitch, y, x) ==
    IF y >= height THEN <<>>
    ELSE IF x >= width THEN Rgb565Rows(src, width, height, pitch, y + 1, 0)
    ELSE LET off == y * pitch + x * 2
             lo == src[off + 1]
             hi == src[off + 2]
             pixel == lo + hi * 256
             r == (pixel \div 2048) % 32
             g == (pixel \div 32) % 64
             b == pixel % 32
         IN  <<b * 8 + b \div 4, g * 4 + g \div 16, r * 8 + r \div 4, 255>>
             \o Rgb565Rows(src, width, height, pitch, y, x + 1)

convert_rgb565_into(src, width, height, pitch) == Rgb565Rows(src, width, height, pitch, 0, 0)

\* convert_to_bgra_into: Ok with the bytes left in dst, or Err
convert_to_bgra_into(src, width, height, pitch, format) ==
    CASE format \in {"Xrgb8888", "Argb8888"} ->
            [ok |-> TRUE, dst |-> copy_rows_into(src, width, height, pitch)]
      [] format = "Xbgr8888" ->
            [ok |-> TRUE, dst |-> convert_xbgr8888_into(src, width, height, pitch)]
      [] format = "Abgr8888" ->
            [ok |-> TRUE, dst |-> convert_abgr8888_into(src, width, height, pitch)]
      [] format = "Rgb565" ->
            [ok |-> TRUE, dst |-> convert_rgb565_into(src, width, height, pitch)]
      [] OTHER -> [ok |-> FALSE, dst |-> <<>>]

PxIdle ==
    /\ pxFormat = "Xrgb8888"
    /\ pxWidth = 1
    /\ pxHeight = 1
    /\ pxPitch = 4
    /\ pxSrc = <<0, 0, 0, 0>>
    /\ pxDst = <<>>
    /\ pxState = "idle"

\* a framebuffer is mapped: its format, size, pitch and contents
PxInit ==
    /\ pxFormat \in FormatSamples
    /\ pxWidth \in 1..MaxSide
    /\ pxHeight \in 1..MaxSide
    /\ \E pad \in PitchPadSamples, a \in SourcePixelSamples, b \in SourcePixelSamples :
        /\ pxPitch = pxWidth * SourceBpp(pxFormat) + pad
        /\ pxSrc = SourceBuffer(pxFormat, a, b, pxWidth, pxHeight, pad, 0)
    /\ pxDst = <<>>
    /\ pxState = "idle"

PxFrame == UNCHANGED <<hsVars, cvVars, rdVars, ssVars, fsVars, inVars, dtVars, moreVars>>

\* convert_to_bgra_into(dst, src, width, height, pitch, format)
PxConvert ==
    /\ pxState = "idle"
    /\ LET r == convert_to_bgra_into(pxSrc, pxWidth, pxHeight, pxPitch, pxFormat)
       IN  /\ pxDst' = r.dst
           /\ pxState' = IF r.ok THEN "ok" ELSE "err"
    /\ UNCHANGED <<pxFormat, pxWidth, pxHeight, pxPitch, pxSrc>>
    /\ PxFrame

PxNext == PxConvert

-----------------------------------------------------------------------------
(* capture_loop with its clock: main, the request channel and its senders, *)
(* the shutdown flag, and the time that passes in recv_timeout and in a    *)
(* capture (milliseconds, counted since the last request).                 *)

\* CaptureMode::OnDemand => Duration::from_millis(100)
ON_DEMAND_TIMEOUT == 100

\* Polling { interval: Duration::from_millis(16) }
POLLING_INTERVAL == 16

\* now.duration_since(last) < Duration::from_millis(100)
FAST_REQUEST_WINDOW == 100

\* Instant::now().duration_since(last) > Duration::from_millis(500)
POLLING_IDLE == 500

\* elapsed times are counted up to here; all larger ones compare alike
MaxSince == 504

\* requests the channel is followed up to
MaxQueued == 2

Elapse(since, d) == Min(since + d, MaxSince)

\* the timeout capture_loop hands to recv_timeout
TimeoutOf(m) == IF m = "OnDemand" THEN ON_DEMAND_TIMEOUT ELSE POLLING_INTERVAL

\* how long recv_timeout may have waited when it returns a request: less
\* than the timeout
WaitSamples(m) == IF m = "OnDemand" THEN {0, 60, 96} ELSE {0, 12}

\* how long capture_fn may take
CaptureTimes == {4, 40}

\* what capture_fn may return
CaptureResults == {"Some", "None", "Err"}

\* a gap that counts as a fast request however long it was
IsFast_Always(gap) == TRUE

IsFast(gap) == gap < FAST_REQUEST_WINDOW

\* a polling timeout that never gives up
PollingExpired_Never(elapsed) == FALSE

PollingExpired(elapsed) == elapsed > POLLING_IDLE

\* a drain that leaves the other queued requests in the channel
Coalesce_TakeOne(queued) == queued - 1

\* recv_timeout took one request, `while try_recv().is_ok() {}` the rest
Coalesce(queued) == 0

\* a do_capture that sends whatever capture_fn returned without an error
Sends_AnyOk(result) == result # "Err"

\* do_capture: only Ok(Some(data)) is sent on frame_tx
Sends(result) == result = "Some"

\* a timeout arm that polls in every mode
Polls_Always(m) == TRUE

\* match mode { CaptureMode::Polling { .. } => .. } in the timeout arm
Polls(m) == m = "Polling"

\* an on-demand timeout that looks at the flag in every mode
ChecksShutdown_AnyMode(m) == TRUE

\* the arm of the timeout that loads the shutdown flag
ChecksShutdown(m) == m = "OnDemand"

\* the part of the state the capture loop's clock model leaves alone
OldFrame == UNCHANGED <<hsVars, cvVars, rdVars, ssVars, fsVars, inVars, dtVars, pxVars>>

ScFrame == OldFrame /\ UNCHANGED <<tdVars, cpVars, daVars, dnVars, tsVars, upVars>>

Idle == [step |-> "none", force |-> FALSE, result |-> "none", sent |-> FALSE,
         elapsed |-> -1, taken |-> 0]

ScIdle ==
    /\ scMain = "serving"
    /\ scShutdown = FALSE
    /\ scMainTx = TRUE
    /\ scClients = 0
    /\ scReq = 0
    /\ scPc = "recv"
    /\ scMode = "OnDemand"
    /\ scFast = 0
    /\ scLast = FALSE
    /\ scSince = 0
    /\ scForce = FALSE
    /\ scOut = Idle
    /\ scHandled = 0
    /\ scAllFast = TRUE
    /\ scW = "none"
    /\ scFresh = FALSE

\* main has spawned capture_loop and listens
ScInit == ScIdle

\* the same with one client connected whose writer is followed
ScInitWriter ==
    /\ scMain = "serving"
    /\ scShutdown = FALSE
    /\ scMainTx = TRUE
    /\ scClients = 1
    /\ scReq = 0
    /\ scPc = "recv"
    /\ scMode = "OnDemand"
    /\ scFast = 0
    /\ scLast = FALSE
    /\ scSince = 0
    /\ scForce = FALSE
    /\ scOut = Idle
    /\ scHandled = 0
    /\ scAllFast = TRUE
    /\ scW = "idle"
    /\ scFresh = FALSE

scLoop == <<scPc, scMode, scFast, scLast, scSince, scForce, scOut, scHandled, scAllFast>>

scWorld == <<scMain, scShutdown, scMainTx, scClients, scReq>>

scWriter == <<scW, scFresh>>

\* the followed writer's client stays connected while it is followed
Followed == IF scW \in {"none", "ended"} THEN 0 ELSE 1

\* a do_capture that forgets the polling mode when the capture failed
ModeAfterCapture_ResetOnErr(result, m) == IF result = "Err" THEN "OnDemand" ELSE m

\* do_capture returns () and has no access to the loop's mode
ModeAfterCapture(result, m) == m

\* listener.accept(): a client task gets a clone of capture_req_tx
ScAccept ==
    /\ scMain = "serving"
    /\ scClients < NClients
    /\ scClients' = scClients + 1
    /\ UNCHANGED <<scMain, scShutdown, scMainTx, scReq, scLoop>>
    /\ UNCHANGED scWriter
    /\ ScFrame

\* handle_client returns and drops its sender
ScClientGone ==
    /\ scClients > Followed
    /\ scClients' = scClients - 1
    /\ UNCHANGED <<scMain, scShutdown, scMainTx, scReq, scLoop>>
    /\ UNCHANGED scWriter
    /\ ScFrame

\* a writer sends capture_req_tx.send(())
ScClientRequest ==
    /\ scClients > 0
    /\ scReq < MaxQueued
    /\ scReq' = scReq + 1
    /\ UNCHANGED <<scMain, scShutdown, scMainTx, scClients, scLoop>>
    /\ UNCHANGED scWriter
    /\ ScFrame

\* ctrl_c: main leaves the accept loop, stores the flag and awaits the
\* capture thread, still holding capture_req_tx
ScSigint ==
    /\ scMain = "serving"
    /\ scMain' = "awaiting"
    /\ scShutdown' = TRUE
    /\ UNCHANGED <<scMainTx, scClients, scReq, scLoop>>
    /\ UNCHANGED scWriter
    /\ ScFrame

\* `accept?` fails: main returns the error and its sender is dropped
ScAcceptError ==
    /\ scMain = "serving"
    /\ scMain' = "failed"
    /\ scMainTx' = FALSE
    /\ UNCHANGED <<scShutdown, scClients, scReq, scLoop>>
    /\ UNCHANGED scWriter
    /\ ScFrame

\* capture_handle.await completes and main returns Ok(())
ScMainReturn ==
    /\ scMain = "awaiting"
    /\ scPc = "exited"
    /\ scMain' = "returned"
    /\ scMainTx' = FALSE
    /\ UNCHANGED <<scShutdown, scClients, scReq, scLoop>>
    /\ UNCHANGED scWriter
    /\ ScFrame

\* recv_timeout returned Ok(()): the request interval is classified, the
\* queue is drained and a forced capture follows
ScRecvOk ==
    /\ scPc = "recv"
    /\ scReq > 0
    /\ \E d \in WaitSamples(scMode) :
        LET gap == Elapse(scSince, d)
        IN  /\ IF scLast /\ IsFast(gap)
               THEN /\ scFast' = Min(scFast + 1, FAST_REQUEST_THRESHOLD)
                    /\ scMode' = IF scFast + 1 >= FAST_REQUEST_THRESHOLD
                                 THEN "Polling" ELSE scMode
               ELSE /\ scFast' = IF scLast THEN 0 ELSE scFast
                    /\ UNCHANGED scMode
            /\ scAllFast' = (scAllFast /\ (scLast => gap < FAST_REQUEST_WINDOW))
            /\ scOut' = [Idle EXCEPT !.step = "recv", !.taken = scReq,
                                     !.elapsed = IF scLast THEN gap ELSE -1]
    /\ scHandled' = Min(scHandled + 1, FAST_REQUEST_THRESHOLD + 1)
    /\ scLast' = TRUE
    /\ scSince' = 0
    /\ scReq' = Coalesce(scReq)
    /\ scForce' = TRUE
    /\ scPc' = "capture"
    /\ UNCHANGED <<scMain, scShutdown, scMainTx, scClients>>
    /\ UNCHANGED scWriter
    /\ ScFrame

\* recv_timeout returned Err(Timeout)
ScTimeout ==
    /\ scPc = "recv"
    /\ scReq = 0
    /\ scMainTx \/ scClients > 0
    /\ LET elapsed == Elapse(scSince, TimeoutOf(scMode))
       IN  /\ scSince' = elapsed
           /\ IF Polls(scMode)
              THEN IF scLast
                   THEN IF PollingExpired(elapsed)
                        THEN /\ scMode' = "OnDemand"
                             /\ scFast' = 0
                             /\ UNCHANGED <<scPc, scForce>>
                        ELSE /\ scPc' = "capture"
                             /\ scForce' = FALSE
                             /\ UNCHANGED <<scMode, scFast>>
                   ELSE UNCHANGED <<scPc, scForce, scMode, scFast>>
              ELSE /\ scPc' = IF ChecksShutdown(scMode) /\ scShutdown
                              THEN "exited" ELSE scPc
                   /\ UNCHANGED <<scForce, scMode, scFast>>
           /\ scOut' = [Idle EXCEPT !.step = "timeout",
                                    !.elapsed = IF scLast THEN elapsed ELSE -1]
    /\ UNCHANGED <<scLast, scHandled, scAllFast, scWorld>>
    /\ UNCHANGED scWriter
    /\ ScFrame

\* recv_timeout returned Err(Disconnected): the queue is empty and every
\* sender is gone
ScDisconnected ==
    /\ scPc = "recv"
    /\ scReq = 0
    /\ ~scMainTx /\ scClients = 0
    /\ scPc' = "exited"
    /\ scOut' = [Idle EXCEPT !.step = "disconnected"]
    /\ UNCHANGED <<scMode, scFast, scLast, scSince, scForce, scHandled, scAllFast,
                   scWorld>>
    /\ UNCHANGED scWriter
    /\ ScFrame

\* do_capture(capture_fn, frame_tx, force)
ScDoCapture ==
    /\ scPc = "capture"
    /\ \E result \in CaptureResults, t \in CaptureTimes :
        /\ scOut' = [Idle EXCEPT !.step = "capture", !.force = scForce,
                                 !.result = result, !.sent = Sends(result)]
        /\ scSince' = Elapse(scSince, t)
        /\ scMode' = ModeAfterCapture(result, scMode)
        /\ scFresh' = (scW \in {"idle", "changed", "failed"} /\ (scFresh \/ Sends(result)))
        /\ scW' = IF scW = "changed" /\ result = "Err" THEN "failed" ELSE scW
    /\ scForce' = FALSE
    /\ scPc' = "recv"
    /\ UNCHANGED <<scFast, scLast, scHandled, scAllFast, scWorld>>
    /\ ScFrame

\* the followed writer got an incremental request: it asks for a capture
\* and waits in frame_rx.changed()
ScWriterRequest ==
    /\ scW = "idle"
    /\ scReq < MaxQueued
    /\ scReq' = scReq + 1
    /\ scW' = "changed"
    /\ UNCHANGED <<scMain, scShutdown, scMainTx, scClients, scFresh, scLoop>>
    /\ ScFrame

\* changed() returns Ok: the writer borrows the frame, marks it seen and
\* writes the update
ScWriterServe ==
    /\ scW \in {"changed", "failed"}
    /\ scFresh
    /\ scFresh' = FALSE
    /\ scW' = "idle"
    /\ UNCHANGED <<scWorld, scLoop>>
    /\ ScFrame

\* changed() returns Err: capture_loop has returned and dropped frame_tx,
\* and there is nothing unseen; the writer loop ends
ScWriterClosed ==
    /\ scW \in {"changed", "failed"}
    /\ ~scFresh
    /\ scPc = "exited"
    /\ scW' = "ended"
    /\ scClients' = scClients - 1
    /\ UNCHANGED <<scMain, scShutdown, scMainTx, scReq, scFresh, scLoop>>
    /\ ScFrame

ScLoopNext == ScRecvOk \/ ScTimeout \/ ScDisconnected \/ ScDoCapture

ScNext ==
    \/ ScAccept
    \/ ScClientGone
    \/ ScClientRequest
    \/ ScSigint
    \/ ScAcceptError
    \/ ScMainReturn
    \/ ScRecvOk
    \/ ScTimeout
    \/ ScDisconnected
    \/ ScDoCapture

\* update_req_rx.recv() returns None: the reader has gone and the writer
\* loop ends with it
ScWriterGone ==
    /\ scW = "idle"
    /\ scW' = "ended"
    /\ scFresh' = FALSE
    /\ scClients' = scClients - 1
    /\ UNCHANGED <<scMain, scShutdown, scMainTx, scReq, scLoop>>
    /\ ScFrame

ScWriterNext ==
    \/ ScNext
    \/ ScWriterRequest
    \/ ScWriterServe
    \/ ScWriterClosed
    \/ ScWriterGone

-----------------------------------------------------------------------------
(* copy_rows_incremental over byte buffers.  A buffer is the set of the    *)
(* offsets of its non-zero bytes: the previous frame dst (rows row_bytes   *)
(* apart) and the mapped framebuffer src (rows pitch bytes apart).         *)

TdDisplay == [width |-> 130, height |-> 70]

\* bytes that may be non-zero, as <<x, y, channel>>
ByteSamples == { <<63, 63, 0>>, <<64, 0, 3>>, <<63, 64, 0>>, <<129, 69, 3>> }

\* extra bytes per source row
TdPadSamples == {0, 64}

TdPitch(pad) == TdDisplay.width * 4 + pad

\* where byte <<x, y, channel>> lies in a buffer whose rows are stride apart
OffsetOf(b, stride) == b[2] * stride + b[1] * 4 + b[3]

\* the buffers a set of non-zero bytes makes
BufferOf(bytes, stride) == { OffsetOf(b, stride) : b \in bytes }

\* a non-zero byte in the padding after the first source row
PadByte(pad) == IF pad = 0 THEN {} ELSE { TdDisplay.width * 4 + 1 }

\* buf[start .. start + len], as offsets from start
Slice(buf, start, len) == { o - start : o \in { b \in buf : b >= start /\ b < start + len } }

\* dst[dstart ..][..len].copy_from_slice(&src[sstart ..][..len])
CopyFromSlice(dst, dstart, src, sstart, len) ==
    { b \in dst : b < dstart \/ b >= dstart + len }
        \cup { o + dstart : o \in Slice(src, sstart, len) }

\* a tile index that forgets the tile column
TileIndex_RowOnly(ty, tx_count, tx) == ty * tx_count

\* ty * tiles_x + tx
TileIndex(ty, tx_count, tx) == ty * tx_count + tx

\* the inner loop, `for tx in 0..tiles_x`, of row y from tile column tx on;
\* st is [dst, bits, any]
RECURSIVE RowLoop(_, _, _, _, _, _)
RowLoop(st, src, width, pitch, y, tx) ==
    LET row_bytes == width * 4
        tx_count == DivCeil(width, TILE_SIZE)
        src_row == y * pitch
        dst_row == y * row_bytes
        ty == y \div TILE_SIZE
        x0 == tx * TILE_SIZE * 4
        tw == Min(TILE_SIZE, width - tx * TILE_SIZE) * 4
    IN  IF tx >= tx_count THEN st
        ELSE IF Slice(st.dst, dst_row + x0, tw) # Slice(src, src_row + x0, tw)
             THEN RowLoop([dst |-> CopyFromSlice(st.dst, dst_row + x0, src, src_row + x0, tw),
                           bits |-> fetch_or(st.bits, WordOf(TileIndex(ty, tx_count, tx)),
                                             {TileIndex(ty, tx_count, tx)}),
                           any |-> TRUE],
                          src, width, pitch, y, tx + 1)
             ELSE RowLoop(st, src, width, pitch, y, tx + 1)

\* the outer loop, `for y in 0..height`, over the rows lo..hi in ascending
\* order (the range is halved to keep the evaluation shallow)
RECURSIVE RowsLoop(_, _, _, _, _, _)
RowsLoop(st, src, width, pitch, lo, hi) ==
    IF lo > hi THEN st
    ELSE IF lo = hi THEN RowLoop(st, src, width, pitch, lo, 0)
    ELSE LET mid == (lo + hi) \div 2
             upper == RowsLoop(st, src, width, pitch, lo, mid)
         IN  IF upper.any \in BOOLEAN
             THEN RowsLoop(upper, src, width, pitch, mid + 1, hi)
             ELSE st

\* copy_rows_incremental(dst, src, width, height, pitch, dirty_tiles):
\* [dst, bits, any] afterwards, any being the value returned
copy_rows_incremental_bytes(dst, src, width, height, pitch, bits) ==
    RowsLoop([dst |-> dst, bits |-> bits, any |-> FALSE], src, width, pitch, 0, height - 1)

TdIdle ==
    /\ tdPad = 0
    /\ tdPrev = {}
    /\ tdSrc = {}
    /\ tdBits0 = {}
    /\ tdDst = {}
    /\ tdBits = {}
    /\ tdAny = FALSE
    /\ tdState = "idle"

\* a previous frame, a mapped framebuffer and a bitmap, before the call
TdInit ==
    /\ tdPad \in TdPadSamples
    /\ tdPrev \in { BufferOf(bs, TdDisplay.width * 4) : bs \in SUBSET ByteSamples }
    /\ tdSrc \in { BufferOf(bs, TdPitch(tdPad)) \cup pb :
                     bs \in SUBSET ByteSamples, pb \in {{}, PadByte(tdPad)} }
    /\ tdBits0 \in { {}, {5} }
    /\ tdDst = tdPrev
    /\ tdBits = tdBits0
    /\ tdAny = FALSE
    /\ tdState = "ready"

TdFrame == OldFrame /\ UNCHANGED <<scVars, cpVars, daVars, dnVars, tsVars, upVars>>

TdCopy ==
    /\ tdState = "ready"
    /\ LET r == copy_rows_incremental_bytes(tdPrev, tdSrc, TdDisplay.width,
                                            TdDisplay.height, TdPitch(tdPad), tdBits0)
       IN  /\ tdDst' = r.dst
           /\ tdBits' = r.bits
           /\ tdAny' = r.any
    /\ tdState' = "done"
    /\ UNCHANGED <<tdPad, tdPrev, tdSrc, tdBits0>>
    /\ TdFrame

TdNext == TdCopy

-----------------------------------------------------------------------------
(* The Capturer's mmap cache: capture() over the framebuffers the CRTC     *)
(* scans out, map_buffer, FIFO eviction and Drop.  Each mmap gets its own  *)
(* number, so that every munmap can be told apart.                         *)

MAX_CACHE_ENTRIES == 4

\* mappings a run creates at most
MaxMappings == 6

\* the framebuffers the CRTC may show, by fb_key, and their pixel formats
FbSamples == 1..6

FormatOfFb(fb) == IF fb = 6 THEN "Nv12" ELSE IF fb = 5 THEN "Rgb565" ELSE "Xrgb8888"

\* convert_to_bgra returns Err for a format convert_to_bgra_into has no arm for
ConvertOk(format) == format \in SupportedFormats

NoRead == [id |-> 0, live |-> TRUE]

CpIdle ==
    /\ cpState = "none"
    /\ cpCache = <<>>
    /\ cpMaps = 0
    /\ cpUnmaps = [id \in 1..MaxMappings |-> 0]
    /\ cpRead = NoRead
    /\ cpResult = "none"
    /\ use_fb2 = "None"
    /\ use_prime = "None"
    /\ cpTried = <<>>
    /\ cpLog = <<>>

\* Capturer::new: an empty cache
CpInit ==
    /\ cpState = "alive"
    /\ cpCache = <<>>
    /\ cpMaps = 0
    /\ cpUnmaps = [id \in 1..MaxMappings |-> 0]
    /\ cpRead = NoRead
    /\ cpResult = "none"
    /\ use_fb2 = "None"
    /\ use_prime = "None"
    /\ cpTried = <<>>
    /\ cpLog = <<>>

CpFrame == OldFrame /\ UNCHANGED <<scVars, tdVars, daVars, dnVars, tsVars, upVars>>

\* mm::munmap(entry.ptr, entry.size)
munmap(unmaps, id) == [unmaps EXCEPT ![id] = @ + 1]

\* a conversion failure that unmaps the entry before returning
DropEntry_Unmapping(unmaps, id) == munmap(unmaps, id)

\* `entry` going out of scope on the `?` return: CachedBuffer implements no
\* Drop, so its fields are dropped and nothing else runs
DropEntry(unmaps, id) == unmaps

\* an eviction that takes the newest entry
EvictIndex_Newest(cache) == Len(cache)

\* self.cache.remove(0)
EvictIndex(cache) == 1

RemoveAt(cache, i) == SubSeq(cache, 1, i - 1) \o SubSeq(cache, i + 1, Len(cache))

\* self.cache.iter().find(|e| e.fb_key == fb_key)
FindEntry(cache, fb) ==
    LET hits == SelectSeq(cache, LAMBDA e : e.fb_key = fb)
    IN  IF hits = <<>> THEN [fb_key |-> 0, id |-> 0] ELSE hits[1]

\* capture(), cache hit: the mapping is read through from_raw_parts
CpCaptureHit ==
    /\ cpState = "alive"
    /\ \E fb \in FbSamples :
        LET entry == FindEntry(cpCache, fb)
        IN  /\ entry.id # 0
            /\ cpRead' = [id |-> entry.id, live |-> cpUnmaps[entry.id] = 0]
            /\ cpResult' = IF ConvertOk(FormatOfFb(fb)) THEN "Ok" ELSE "Err"
    /\ cpTried' = <<>>
    /\ cpLog' = <<>>
    /\ UNCHANGED <<cpState, cpCache, cpMaps, cpUnmaps, use_fb2, use_prime>>
    /\ CpFrame

\* what the kernel answers to the mapping attempts of one call: GET_FB2 and
\* GET_FB, and PRIME export + mmap and MAP_DUMB + mmap under each of them
\* (the same answer to both attempts at a path, or the second attempt at
\* PRIME or at MAP_DUMB succeeding after the first failed)
MapOutcomes ==
    { o \in [fb2 : BOOLEAN, prime2 : BOOLEAN, dumb2 : BOOLEAN,
             fb1 : BOOLEAN, prime1 : BOOLEAN, dumb1 : BOOLEAN] :
        \/ o.prime1 = o.prime2 /\ o.dumb1 = o.dumb2
        \/ o.fb2 /\ o.fb1 /\ ~o.prime2 /\ ~o.dumb2 /\ (o.prime1 \/ o.dumb1) }

\* map_dumb_cached and the latch that follows it
MapDumb(prime, dumbOk, tried) ==
    IF dumbOk
    THEN [ok |-> TRUE, use_prime |-> "Some(false)", tried |-> Append(tried, "DUMB")]
    ELSE [ok |-> FALSE, use_prime |-> prime, tried |-> Append(tried, "DUMB")]

\* a map_gem_cached that falls back to the dumb mapping whatever the latch
map_gem_cached_AlwaysFallBack(prime, primeOk, dumbOk) ==
    IF prime \in {"Some(true)", "None"}
    THEN IF primeOk
         THEN [ok |-> TRUE, use_prime |-> "Some(true)", tried |-> <<"PRIME">>]
         ELSE MapDumb(prime, dumbOk, <<"PRIME">>)
    ELSE MapDumb(prime, dumbOk, <<>>)

\* map_gem_cached
map_gem_cached(prime, primeOk, dumbOk) ==
    IF prime \in {"Some(true)", "None"}
    THEN IF primeOk
         THEN [ok |-> TRUE, use_prime |-> "Some(true)", tried |-> <<"PRIME">>]
         ELSE IF prime = "Some(true)"
         THEN [ok |-> FALSE, use_prime |-> prime, tried |-> <<"PRIME">>]
         ELSE MapDumb(prime, dumbOk, <<"PRIME">>)
    ELSE MapDumb(prime, dumbOk, <<>>)

\* map_fb2: GET_FB2, which reports the format, then map_gem_cached
map_fb2(prime, o) ==
    IF ~o.fb2 THEN [ok |-> FALSE, use_prime |-> prime, tried |-> <<"GET_FB2">>]
    ELSE LET m == map_gem_cached(prime, o.prime2, o.dumb2)
         IN  [m EXCEPT !.tried = <<"GET_FB2">> \o @]

\* map_fb1: GET_FB, the format from (bpp, depth), then map_gem_cached
map_fb1(prime, o, fb) ==
    IF ~o.fb1 \/ FormatOfFb(fb) \notin {"Xrgb8888", "Argb8888", "Rgb565"}
    THEN [ok |-> FALSE, use_prime |-> prime, tried |-> <<"GET_FB">>]
    ELSE LET m == map_gem_cached(prime, o.prime1, o.dumb1)
         IN  [m EXCEPT !.tried = <<"GET_FB">> \o @]

\* map_fb1 as map_buffer's last resort, and the use_fb2 latch that follows it
ViaFb1(fb2, prime, o, fb, tried) ==
    LET m == map_fb1(prime, o, fb)
    IN  [ok |-> m.ok, use_prime |-> m.use_prime, tried |-> tried \o m.tried,
         use_fb2 |-> IF m.ok THEN "Some(false)" ELSE fb2]

\* map_buffer
map_buffer(fb2, prime, o, fb) ==
    IF fb2 \in {"Some(true)", "None"}
    THEN LET m == map_fb2(prime, o)
         IN  IF m.ok
             THEN [ok |-> TRUE, use_prime |-> m.use_prime, tried |-> m.tried,
                   use_fb2 |-> "Some(true)"]
             ELSE IF fb2 = "Some(true)"
             THEN [ok |-> FALSE, use_prime |-> m.use_prime, tried |-> m.tried,
                   use_fb2 |-> fb2]
             ELSE ViaFb1(fb2, m.use_prime, o, fb, m.tried)
    ELSE ViaFb1(fb2, prime, o, fb, <<>>)

\* evict_entry: munmap, then close_buffer
evict_entry(id) == << [op |-> "munmap", id |-> id], [op |-> "close_buffer", id |-> id] >>

\* capture(), cache miss: map_buffer, conversion, eviction of the oldest
\* entry when the cache is full, push
CpCaptureMiss ==
    /\ cpState = "alive"
    /\ cpMaps < MaxMappings
    /\ \E fb \in FbSamples, o \in MapOutcomes :
        /\ FindEntry(cpCache, fb).id = 0
        /\ LET m == map_buffer(use_fb2, use_prime, o, fb)
               id == cpMaps + 1
               entry == [fb_key |-> fb, id |-> id]
           IN  /\ use_fb2' = m.use_fb2
               /\ use_prime' = m.use_prime
               /\ cpTried' = m.tried
               /\ IF ~m.ok
                  THEN /\ cpResult' = "Err"
                       /\ cpRead' = NoRead
                       /\ cpLog' = <<>>
                       /\ UNCHANGED <<cpCache, cpMaps, cpUnmaps>>
                  ELSE /\ cpMaps' = id
                       /\ cpRead' = [id |-> id, live |-> TRUE]
                       /\ IF ~ConvertOk(FormatOfFb(fb))
                          THEN /\ cpUnmaps' = DropEntry(cpUnmaps, id)
                               /\ cpResult' = "Err"
                               /\ cpLog' = <<>>
                               /\ UNCHANGED cpCache
                          ELSE /\ cpResult' = "Ok"
                               /\ IF Len(cpCache) >= MAX_CACHE_ENTRIES
                                  THEN LET evicted == cpCache[EvictIndex(cpCache)]
                                       IN  /\ cpUnmaps' = munmap(cpUnmaps, evicted.id)
                                           /\ cpCache' = Append(RemoveAt(cpCache, EvictIndex(cpCache)),
                                                                entry)
                                           /\ cpLog' = evict_entry(evicted.id)
                                                        \o << [op |-> "push", id |-> id] >>
                                  ELSE /\ cpCache' = Append(cpCache, entry)
                                       /\ cpLog' = << [op |-> "push", id |-> id] >>
                                       /\ UNCHANGED cpUnmaps
    /\ UNCHANGED cpState
    /\ CpFrame

\* capture(): get_crtc fails
CpCaptureFail ==
    /\ cpState = "alive"
    /\ cpResult' = "Err"
    /\ cpRead' = NoRead
    /\ cpTried' = <<>>
    /\ cpLog' = <<>>
    /\ UNCHANGED <<cpState, cpCache, cpMaps, cpUnmaps, use_fb2, use_prime>>
    /\ CpFrame

RECURSIVE DrainLog(_)
\* for entry in self.cache.drain(..): munmap, close_buffer
DrainLog(cache) ==
    IF cache = <<>> THEN <<>> ELSE evict_entry(Head(cache).id) \o DrainLog(Tail(cache))

\* impl Drop for Capturer: every cached entry is unmapped
CpDrop ==
    /\ cpState = "alive"
    /\ cpState' = "dropped"
    /\ cpUnmaps' = [id \in 1..MaxMappings |->
                      cpUnmaps[id] + Len(SelectSeq(cpCache, LAMBDA e : e.id = id))]
    /\ cpCache' = <<>>
    /\ cpRead' = NoRead
    /\ cpResult' = "none"
    /\ cpTried' = <<>>
    /\ cpLog' = DrainLog(cpCache)
    /\ UNCHANGED <<cpMaps, use_fb2, use_prime>>
    /\ CpFrame

CpNext ==
    \/ CpCaptureHit
    \/ CpCaptureMiss
    \/ CpCaptureFail
    \/ CpDrop

-----------------------------------------------------------------------------
(* vnc_des_auth on its own: two calls side by side, so that responses to   *)
(* related passwords and related challenges can be compared.               *)

\* "", "secret", "passw0rd" (8 bytes), "passw0rd9", "passw0rdXY", "secret\0",
\* and "é1" (bytes C3 A9 31)
PasswordByteSamples ==
    { <<>>,
      <<115, 101, 99, 114, 101, 116>>,
      <<112, 97, 115, 115, 119, 48, 114, 100>>,
      <<112, 97, 115, 115, 119, 48, 114, 100, 57>>,
      <<112, 97, 115, 115, 119, 48, 114, 100, 88, 89>>,
      <<115, 101, 99, 114, 101, 116, 0>>,
      <<195, 169, 49>> }

\* all zeros; 0..15; 0..15 with byte 0 changed; 0..15 with byte 15 changed;
\* 0..15 with bytes 7 and 8 swapped
ChallengePairSamples ==
    { [i \in 1..16 |-> 0],
      [i \in 1..16 |-> i - 1],
      [i \in 1..16 |-> IF i = 1 THEN 200 ELSE i - 1],
      [i \in 1..16 |-> IF i = 16 THEN 200 ELSE i - 1],
      [i \in 1..16 |-> IF i = 8 THEN 8 ELSE IF i = 9 THEN 7 ELSE i - 1] }

NoCall == [password |-> <<>>, challenge |-> <<>>, key |-> <<>>, response |-> <<>>]

DaIdle ==
    /\ daState = "none"
    /\ daA = NoCall
    /\ daB = NoCall

DaInit ==
    /\ daState = "ready"
    /\ \E pa \in PasswordByteSamples, pb \in PasswordByteSamples,
          ca \in ChallengePairSamples, cb \in ChallengePairSamples :
        /\ daA = [password |-> pa, challenge |-> ca, key |-> <<>>, response |-> <<>>]
        /\ daB = [password |-> pb, challenge |-> cb, key |-> <<>>, response |-> <<>>]

DaFrame == OldFrame /\ UNCHANGED <<scVars, tdVars, cpVars, dnVars, tsVars, upVars>>

\* the two calls of vnc_des_auth
DaAuth ==
    /\ daState = "ready"
    /\ daState' = "done"
    /\ daA' = [daA EXCEPT !.key = DesKey(daA.password),
                          !.response = vnc_des_auth(daA.password, daA.challenge)]
    /\ daB' = [daB EXCEPT !.key = DesKey(daB.password),
                          !.response = vnc_des_auth(daB.password, daB.challenge)]
    /\ DaFrame

DaNext == DaAuth

-----------------------------------------------------------------------------
(* DirtyTiles::new over display sizes of the whole u32 range, and the bit  *)
(* indices set, set_all and drain_to_rects compute for what it accepted.   *)
(* u32 products are computed on four 8-bit limbs, lowest first.            *)

MAX_TILES == 512

\* display sizes: none, one tile, 22 x 22 (484), 32 x 16 (512), 512 x 1,
\* 513 x 1, 33 x 16 (528), 1024 x 1024, and three whose tile count does not
\* fit 32 bits: 65536 x 65536, 1048576 x 4096, 65537 x 65537
DimSamplesU32 ==
    { <<0, 0>>, <<1, 1>>, <<64, 65>>, <<1408, 1408>>, <<2048, 1024>>, <<1920, 1080>>,
      <<32768, 64>>, <<32705, 1>>, <<32769, 64>>, <<64, 32769>>, <<2049, 1024>>,
      <<65535, 65535>>, <<4194304, 4194304>>, <<4194241, 4194241>>,
      <<67108864, 262144>>, <<262144, 67108864>>, <<4194305, 4194305>> }

\* overflow-checks of the build profile: on (debug) or off (release)
BuildSamples == {"checked", "wrapping"}

Limbs(n) == [k \in 0..3 |-> (n \div Pow2(8 * k)) % 256]

\* the 64-bit product of two u32 values, eight limbs
FullProduct(a, b) ==
    LET la == Limbs(a)
        lb == Limbs(b)
        col(k) == LET lo == IF k > 3 THEN k - 3 ELSE 0
                      hi == IF k > 3 THEN 3 ELSE k
                      part[i \in (lo - 1)..hi] ==
                          IF i < lo THEN 0 ELSE part[i - 1] + la[i] * lb[k - i]
                  IN  part[hi]
        acc[k \in 0..7] == IF k = 0 THEN col(0) ELSE col(k) + acc[k - 1] \div 256
    IN  [k \in 0..7 |-> acc[k] % 256]

\* a * b does not fit a u32
MulOverflows(a, b) == \E k \in 4..7 : FullProduct(a, b)[k] # 0

\* a product that saturates at u32::MAX
wrapping_mul_Saturating(a, b) ==
    IF MulOverflows(a, b) THEN [k \in 0..3 |-> 255]
    ELSE [k \in 0..3 |-> FullProduct(a, b)[k]]

\* u32 * u32 with overflow-checks off: the low 32 bits
wrapping_mul(a, b) == [k \in 0..3 |-> FullProduct(a, b)[k]]

\* (x as usize <= 512) for x given by its limbs
AtMostMaxTiles(l) == l[3] = 0 /\ l[2] = 0 /\ l[1] * 256 + l[0] <= MAX_TILES

\* x as usize, for x <= 512
SmallValue(l) == l[1] * 256 + l[0]

NoTiles == [tiles_x |-> 0, tiles_y |-> 0, total |-> 0]

NoUse == [op |-> "none", word |-> -1, bit |-> -1]

NoDrain == [drained |-> {}, rects |-> <<>>]

DnIdle ==
    /\ dnState = "none"
    /\ dnBuild = "checked"
    /\ dnDim = <<0, 0>>
    /\ dnTiles = NoTiles
    /\ dnUse = NoUse
    /\ dnBits = {}
    /\ dnRects = NoDrain

DnInit ==
    /\ dnState = "ready"
    /\ dnBuild \in BuildSamples
    /\ dnDim \in DimSamplesU32
    /\ dnTiles = NoTiles
    /\ dnUse = NoUse
    /\ dnBits = {}
    /\ dnRects = NoDrain

DnFrame == OldFrame /\ UNCHANGED <<scVars, tdVars, cpVars, daVars, tsVars, upVars>>

\* DirtyTiles::new(width, height): the assert, and the arithmetic panic of
\* a build with overflow-checks
DnNew ==
    /\ dnState = "ready"
    /\ LET tx_count == DivCeil(dnDim[1], TILE_SIZE)
           ty_count == DivCeil(dnDim[2], TILE_SIZE)
           product == wrapping_mul(tx_count, ty_count)
       IN  IF dnBuild = "checked" /\ MulOverflows(tx_count, ty_count)
           THEN dnState' = "rejected" /\ UNCHANGED dnTiles
           ELSE IF ~AtMostMaxTiles(product)
           THEN dnState' = "rejected" /\ UNCHANGED dnTiles
           ELSE /\ dnState' = "built"
                /\ dnTiles' = [tiles_x |-> tx_count, tiles_y |-> ty_count,
                               total |-> SmallValue(product)]
    /\ UNCHANGED <<dnBuild, dnDim, dnUse, dnBits, dnRects>>
    /\ DnFrame

\* tiles of the display a caller of set names: the first, one in the first
\* row (the last one, or tile 512 of a longer row), and the last of a grid
\* no longer than 1024 tiles a side
TileSamples(t) ==
    IF t.tiles_x = 0 \/ t.tiles_y = 0 THEN {}
    ELSE {<<0, 0>>, <<Min(t.tiles_x - 1, MAX_TILES), 0>>}
         \cup (IF t.tiles_x <= 1024 /\ t.tiles_y <= 1024
               THEN {<<t.tiles_x - 1, t.tiles_y - 1>>} ELSE {})

\* self.bits[word]: a word index outside 0..7 panics
Indexed(op, idx) ==
    /\ dnUse' = [op |-> op, word |-> idx \div WORD_BITS, bit |-> idx % WORD_BITS]
    /\ dnState' = IF idx \div WORD_BITS >= NUM_WORDS THEN "out_of_bounds" ELSE "built"

\* set(ty * tiles_x + tx) for a tile of the display
DnSet ==
    /\ dnState = "built"
    /\ \E t \in TileSamples(dnTiles) :
        LET idx == t[2] * dnTiles.tiles_x + t[1]
        IN  /\ Indexed("set", idx)
            /\ dnBits' = IF idx \div WORD_BITS >= NUM_WORDS THEN dnBits ELSE dnBits \cup {idx}
    /\ dnRects' = NoDrain
    /\ UNCHANGED <<dnBuild, dnDim, dnTiles>>
    /\ DnFrame

\* set_all: the last word it writes, and the highest bit set there
DnSetAll ==
    /\ dnState = "built"
    /\ LET total == dnTiles.total
       IN  /\ IF total = 0 THEN dnUse' = [op |-> "set_all", word |-> -1, bit |-> -1]
                                /\ dnState' = "built"
              ELSE Indexed("set_all", total - 1)
           /\ dnBits' = dnBits \cup (0..(total - 1))
    /\ dnRects' = NoDrain
    /\ UNCHANGED <<dnBuild, dnDim, dnTiles>>
    /\ DnFrame

\* a tile that is not clipped to the display edge
TileExtent_Unclipped(size, origin) == TILE_SIZE

\* TILE_SIZE.min(self.width - x0), and the same for the height
TileExtent(size, origin) == Min(TILE_SIZE, size - origin)

\* u32 as u16
AsU16(n) == n % 65536

\* the rects drain_to_rects pushes for the bits in words: ty in the outer
\* loop, tx in the inner one
drain_rects(t, dim, words) ==
    LET order == [k \in 1..(t.tiles_x * t.tiles_y) |->
                    [ty |-> (k - 1) \div t.tiles_x, tx |-> (k - 1) % t.tiles_x]]
        hit == SelectSeq(order, LAMBDA p : (p.ty * t.tiles_x + p.tx) \in words)
    IN  [k \in 1..Len(hit) |->
            LET x0 == hit[k].tx * TILE_SIZE
                y0 == hit[k].ty * TILE_SIZE
            IN  [x |-> AsU16(x0), y |-> AsU16(y0),
                 width |-> AsU16(TileExtent(dim[1], x0)),
                 height |-> AsU16(TileExtent(dim[2], y0))]]

\* drain_to_rects: all words are swapped to 0, then idx runs through 0, 1,
\* 2, ... as tx and ty advance, and words[idx / 64] panics past word 7
DnDrain ==
    /\ dnState = "built"
    /\ dnBits' = {}
    /\ LET t == dnTiles
       IN  IF t.tiles_x = 0 \/ t.tiles_y = 0
           THEN /\ dnUse' = [op |-> "drain", word |-> -1, bit |-> -1]
                /\ dnState' = "built"
                /\ dnRects' = [drained |-> dnBits, rects |-> <<>>]
           ELSE IF MulOverflows(t.tiles_x, t.tiles_y)
           THEN Indexed("drain", MAX_TILES) /\ dnRects' = NoDrain
           ELSE /\ Indexed("drain", Min(t.tiles_x * t.tiles_y - 1, MAX_TILES))
                /\ dnRects' = IF t.tiles_x * t.tiles_y > MAX_TILES THEN NoDrain
                              ELSE [drained |-> dnBits, rects |-> drain_rects(t, dnDim, dnBits)]
    /\ UNCHANGED <<dnBuild, dnDim, dnTiles>>
    /\ DnFrame

DnNext ==
    \/ DnNew
    \/ DnSet
    \/ DnSetAll
    \/ DnDrain

-----------------------------------------------------------------------------
(* The VirtualTouchscreen on its own: handle_pointer over pointer events   *)
(* with every write succeeding or failing, from a new device and from one  *)
(* that has had 65534 or 65535 contacts.                                   *)

\* ABS_MT_TRACKING_ID maximum given to uinput
TRACKING_ID_MAX == 65535

\* tracking ids a run assigns at most
MaxContacts == 4

\* button masks: none, left, middle, left and middle; two positions
PointerSamples ==
    { [button_mask |-> b, x |-> p[1], y |-> p[2]] :
        b \in {0, 1, 4, 5}, p \in { <<10, 10>>, <<20, 30>> } }

NoDown == [some |-> FALSE, id |-> 0]

\* what a device looks like after n contacts that were all written and
\* released at (20, 30)
AfterContacts(n) ==
    [touch |-> [tracking_id |-> n % 65536, is_touching |-> FALSE,
                last_x |-> IF n = 0 THEN 0 ELSE 20, last_y |-> IF n = 0 THEN 0 ELSE 30],
     prev |-> IF n = 0 THEN NoDown ELSE [some |-> TRUE, id |-> n % 65536],
     last |-> IF n = 0 THEN "none" ELSE "up"]

ContactSamples == {0, 65534, 65535}

HasEvent(report, e) == \E k \in 1..Len(report) : report[k] = e

\* "down", "up", "move" or "none"
ReportKind(report) ==
    IF report = <<>> THEN "none"
    ELSE IF HasEvent(report, <<"BTN_TOUCH", 1>>) THEN "down"
    ELSE IF HasEvent(report, <<"BTN_TOUCH", 0>>) THEN "up"
    ELSE "move"

\* the ABS_MT_TRACKING_ID value of a report that has one
ReportId(report) ==
    LET ids == SelectSeq(report, LAMBDA e : e[1] = "ABS_MT_TRACKING_ID")
    IN  ids[1][2]

TsIdle ==
    /\ tsTouch = NewTouch
    /\ tsReport = <<>>
    /\ tsOk = TRUE
    /\ tsPrevDown = NoDown
    /\ tsLast = "none"
    /\ tsAssigned = 0
    /\ tsAllOk = TRUE

\* VirtualTouchscreen::new, or the device some contacts later
TsInit ==
    /\ \E n \in ContactSamples :
        /\ tsTouch = AfterContacts(n).touch
        /\ tsPrevDown = AfterContacts(n).prev
        /\ tsLast = AfterContacts(n).last
    /\ tsReport = <<>>
    /\ tsOk = TRUE
    /\ tsAssigned = 0
    /\ tsAllOk = TRUE

TsFrame == OldFrame /\ UNCHANGED <<scVars, tdVars, cpVars, daVars, dnVars, upVars>>

\* a touch-up that leaves is_touching set
handle_pointer_UpKeepsTouching(st, button_mask, x, y, write_ok) ==
    LET r == handle_pointer(st, button_mask, x, y, write_ok)
    IN  IF ReportKind(r.report) = "up" THEN [r EXCEPT !.st.is_touching = TRUE] ELSE r

\* a handle_pointer that records the transition before the write
handle_pointer_CommitFirst(st, button_mask, x, y, write_ok) ==
    LET r == handle_pointer(st, button_mask, x, y, write_ok)
    IN  IF r.ok THEN r ELSE [r EXCEPT !.st.is_touching = ~st.is_touching]

\* handle_pointer as input_loop calls it
TouchscreenPointer(st, button_mask, x, y, write_ok) ==
    handle_pointer(st, button_mask, x, y, write_ok)

\* whether handle_pointer would write a report for this event
Writes(st, e) == handle_pointer(st, e.button_mask, e.x, e.y, TRUE).report # <<>>

\* one call of handle_pointer
TsPointer ==
    \E e \in PointerSamples, write_ok \in BOOLEAN :
        LET starts == Touching(e.button_mask) /\ ~tsTouch.is_touching
            r == TouchscreenPointer(tsTouch, e.button_mask, e.x, e.y, write_ok)
            kind == ReportKind(r.report)
        IN  /\ starts => tsAssigned < MaxContacts
            /\ (~write_ok) => Writes(tsTouch, e)
            /\ tsTouch' = r.st
            /\ tsReport' = r.report
            /\ tsOk' = r.ok
            /\ tsPrevDown' = IF kind = "down" THEN [some |-> TRUE, id |-> ReportId(r.report)]
                             ELSE tsPrevDown
            /\ tsLast' = IF kind \in {"down", "up"} THEN kind ELSE tsLast
            /\ tsAssigned' = IF starts THEN tsAssigned + 1 ELSE tsAssigned
            /\ tsAllOk' = (tsAllOk /\ r.ok)
            /\ TsFrame

TsNext == TsPointer

-----------------------------------------------------------------------------
(* Updates as the clients see them: the writers of the sessions draining   *)
(* the one DirtyTiles bitmap and borrowing from the frame slot while       *)
(* capture_loop marks tiles and publishes frames.                          *)

\* capture requests waiting in the channel
MaxWaiting == 1

\* no update written to the client yet
NoUsed == [some |-> FALSE, data |-> {}]

\* no update written in this step
NoAnswer == [to |-> 0, incremental |-> FALSE, frame |-> {}, prev |-> NoUsed,
             tiles |-> {}]

\* the tiles the rects of an update cover
Covered(rects) ==
    IF \E i \in 1..Len(rects) : rects[i] = FullRect THEN Tiles
    ELSE {t \in Tiles : \E i \in 1..Len(rects) : rects[i] = TileRect(t)}

\* main before the first connection: the slot holds the initial frame,
\* which main's receiver and every clone of it count as seen
UpIdle ==
    /\ upConn = [c \in Clients |-> FALSE]
    /\ upWpc = [c \in Clients |-> "recv"]
    /\ upInc = [c \in Clients |-> FALSE]
    /\ upUnseen = [c \in Clients |-> FALSE]
    /\ upHeld = [c \in Clients |-> {}]
    /\ upSince = [c \in Clients |-> FALSE]
    /\ upUsed = [c \in Clients |-> NoUsed]
    /\ upOut = NoAnswer
    /\ upBits = {}
    /\ upSlot = {}
    /\ upPrev = {}
    /\ upData = {}
    /\ upPc = "wait"
    /\ upForce = FALSE
    /\ upMode = "OnDemand"
    /\ upFast = 0
    /\ upLastReq = FALSE
    /\ upReq = 0

UpInit == UpIdle

UpFrame == OldFrame /\ UNCHANGED <<scVars, tdVars, cpVars, daVars, dnVars, tsVars>>

upSched == <<upPc, upForce, upMode, upFast, upLastReq, upPrev, upData>>

upWriters == <<upWpc, upInc, upUnseen, upHeld, upSince, upUsed>>

\* listener.accept(): the session gets a clone of main's frame receiver,
\* which has seen the initial frame only
UpAccept(c) ==
    /\ ~upConn[c]
    /\ upConn' = [upConn EXCEPT ![c] = TRUE]
    /\ upOut' = NoAnswer
    /\ UNCHANGED <<upWriters, upBits, upSlot, upSched, upReq>>
    /\ UpFrame

\* update_req_rx.recv() returned a request; an incremental one is signalled
\* to the scheduler before the writer waits for the slot to change.  The
\* scheduler takes the queued signals all at once, so what it does depends
\* only on whether there is one: the count stops at MaxWaiting
UpWriterRecv(c) ==
    /\ upConn[c]
    /\ upWpc[c] = "recv"
    /\ \E incremental \in BOOLEAN :
        /\ upInc' = [upInc EXCEPT ![c] = incremental]
        /\ upReq' = IF incremental THEN Min(upReq + 1, MaxWaiting) ELSE upReq
        /\ upWpc' = [upWpc EXCEPT ![c] = IF incremental THEN "changed" ELSE "borrow"]
    /\ upSince' = [upSince EXCEPT ![c] = FALSE]
    /\ upOut' = NoAnswer
    /\ UNCHANGED <<upConn, upUnseen, upHeld, upUsed, upBits, upSlot, upSched>>
    /\ UpFrame

\* frame_rx.changed() returns once the slot's version is not the one seen
UpWriterChanged(c) ==
    /\ upWpc[c] = "changed"
    /\ upUnseen[c]
    /\ upUnseen' = [upUnseen EXCEPT ![c] = FALSE]
    /\ upWpc' = [upWpc EXCEPT ![c] = "borrow"]
    /\ upOut' = NoAnswer
    /\ UNCHANGED <<upConn, upInc, upHeld, upSince, upUsed, upBits, upSlot,
                   upSched, upReq>>
    /\ UpFrame

\* frame_rx.borrow_and_update().clone()
UpWriterBorrow(c) ==
    /\ upWpc[c] = "borrow"
    /\ upHeld' = [upHeld EXCEPT ![c] = borrow_and_update(upSlot)]
    /\ upUnseen' = [upUnseen EXCEPT ![c] = FALSE]
    /\ upWpc' = [upWpc EXCEPT ![c] = "emit"]
    /\ upOut' = NoAnswer
    /\ UNCHANGED <<upConn, upInc, upSince, upUsed, upBits, upSlot, upSched,
                   upReq>>
    /\ UpFrame

\* dirty_tiles.drain_to_rects() and the update written from the borrowed
\* frame: the drained tiles for an incremental request (none: the empty
\* update), the full frame otherwise; the iteration's locals are dropped
UpWriterEmit(c) ==
    /\ upWpc[c] = "emit"
    /\ LET rects == UpdateRects(upInc[c], drain_to_rects(upBits))
           tiles == Covered(rects)
       IN  upOut' = [to |-> c, incremental |-> upInc[c], frame |-> upHeld[c],
                     prev |-> upUsed[c], tiles |-> tiles]
    /\ upBits' = {}
    /\ upUsed' = [upUsed EXCEPT ![c] = [some |-> TRUE, data |-> upHeld[c]]]
    /\ upHeld' = [upHeld EXCEPT ![c] = {}]
    /\ upInc' = [upInc EXCEPT ![c] = FALSE]
    /\ upWpc' = [upWpc EXCEPT ![c] = "recv"]
    /\ UNCHANGED <<upConn, upUnseen, upSince, upSlot, upSched, upReq>>
    /\ UpFrame

\* capture_req_rx.recv_timeout returned a request
UpSchedRecv ==
    /\ upPc = "wait"
    /\ upReq > 0
    /\ \E quick \in BOOLEAN :
        IF upLastReq /\ quick
        THEN /\ upFast' = Min(upFast + 1, FAST_REQUEST_THRESHOLD)
             /\ upMode' = IF upFast + 1 >= FAST_REQUEST_THRESHOLD
                          THEN "Polling" ELSE upMode
        ELSE /\ upFast' = IF upLastReq THEN 0 ELSE upFast
             /\ UNCHANGED upMode
    /\ upLastReq' = TRUE
    /\ upReq' = 0
    /\ upForce' = TRUE
    /\ upPc' = "capture"
    /\ upOut' = NoAnswer
    /\ UNCHANGED <<upConn, upWriters, upBits, upSlot, upPrev, upData>>
    /\ UpFrame

\* recv_timeout timed out in Polling
UpSchedTimeout ==
    /\ upPc = "wait"
    /\ upReq = 0
    /\ upMode = "Polling"
    /\ upLastReq
    /\ \E late \in BOOLEAN :
        IF late
        THEN /\ upMode' = "OnDemand"
             /\ upFast' = 0
             /\ UNCHANGED <<upPc, upForce>>
        ELSE /\ upPc' = "capture"
             /\ upForce' = FALSE
             /\ UNCHANGED <<upMode, upFast>>
    /\ upOut' = NoAnswer
    /\ UNCHANGED <<upConn, upWriters, upBits, upSlot, upLastReq, upPrev, upData, upReq>>
    /\ UpFrame

\* capture_fn(force) returned Ok: copy_rows_incremental has marked the tiles
\* that differ from the previous frame; Some(data) goes on to frame_tx.send
UpCaptureOk ==
    /\ upPc = "capture"
    /\ \E src \in FrameSamples :
        LET r == CaptureResult(upPrev, src, upForce)
        IN  /\ upBits' = upBits \cup copy_rows_incremental(upPrev, src)
            /\ upPrev' = src
            /\ upData' = r.data
            /\ upPc' = IF r.some THEN "publish" ELSE "wait"
    /\ upForce' = FALSE
    /\ upOut' = NoAnswer
    /\ UNCHANGED <<upConn, upWriters, upSlot, upMode, upFast, upLastReq, upReq>>
    /\ UpFrame

\* capture_fn(force) returned Err: a warning is logged
UpCaptureErr ==
    /\ upPc = "capture"
    /\ upPc' = "wait"
    /\ upForce' = FALSE
    /\ upOut' = NoAnswer
    /\ UNCHANGED <<upConn, upWriters, upBits, upSlot, upMode, upFast, upLastReq,
                   upPrev, upData, upReq>>
    /\ UpFrame

\* frame_tx.send(Arc::new(data)): the slot takes the frame and every
\* receiver, the one main keeps for cloning included, sees a change
UpPublish ==
    /\ upPc = "publish"
    /\ upSlot' = upData
    /\ upUnseen' = [c \in Clients |-> TRUE]
    /\ upSince' = [c \in Clients |-> TRUE]
    /\ upData' = {}
    /\ upPc' = "wait"
    /\ upOut' = NoAnswer
    /\ UNCHANGED <<upConn, upWpc, upInc, upHeld, upUsed, upBits, upForce,
                   upMode, upFast, upLastReq, upPrev, upReq>>
    /\ UpFrame

UpNext ==
    \/ \E c \in Clients :
        \/ UpAccept(c)
        \/ UpWriterRecv(c)
        \/ UpWriterChanged(c)
        \/ UpWriterBorrow(c)
        \/ UpWriterEmit(c)
    \/ UpSchedRecv
    \/ UpSchedTimeout
    \/ UpCaptureOk
    \/ UpCaptureErr
    \/ UpPublish

-----------------------------------------------------------------------------
(* Specifications                                                          *)

MoreIdle == ScIdle /\ TdIdle /\ CpIdle /\ DaIdle /\ DnIdle /\ TsIdle /\ UpIdle

ExtIdle == FsIdle /\ InIdle /\ DtIdle /\ PxIdle /\ MoreIdle

InitHandshake == HsInit /\ CvIdle /\ RdIdle /\ SsIdle /\ ExtIdle

SpecHandshake == InitHandshake /\ [][HsNext]_vars

InitConvert == CvInit /\ HsIdle /\ RdIdle /\ SsIdle /\ ExtIdle

SpecConvert == InitConvert /\ [][CvNext]_vars

InitReader == RdInit /\ HsIdle /\ CvIdle /\ SsIdle /\ ExtIdle

SpecReader == InitReader /\ [][RdNext]_vars

Init == SsIdle /\ HsIdle /\ CvIdle /\ RdIdle /\ ExtIdle

Spec == Init /\ [][Next]_vars

\* the runtime keeps polling the writer and the select of every session,
\* and the capture thread keeps running; nothing is assumed of the clients
\* or of the device
Fairness ==
    /\ \A c \in Clients :
        /\ WF_vars(WriterRecv(c))
        /\ WF_vars(WriterChanged(c))
        /\ WF_vars(WriterBorrow(c))
        /\ WF_vars(WriterEmit(c))
        /\ WF_vars(WriterPanic(c))
        /\ WF_vars(SessionEndReader(c))
    /\ WF_vars(SchedRecv)
    /\ WF_vars(SchedTimeout)
    /\ WF_vars(SchedCaptureOk \/ SchedCaptureErr)
    /\ WF_vars(SchedPublish)

FairSpec == Spec /\ Fairness

InitFrames == FsInit /\ HsIdle /\ CvIdle /\ RdIdle /\ SsIdle /\ InIdle /\ DtIdle /\ PxIdle /\ MoreIdle

SpecFrames == InitFrames /\ [][FsNext]_vars

InitInput == InInit /\ HsIdle /\ CvIdle /\ RdIdle /\ SsIdle /\ FsIdle /\ DtIdle /\ PxIdle /\ MoreIdle

SpecInput == InitInput /\ [][InNext]_vars

InitTiles == DtInit /\ HsIdle /\ CvIdle /\ RdIdle /\ SsIdle /\ FsIdle /\ InIdle /\ PxIdle /\ MoreIdle

SpecTiles == InitTiles /\ [][DtNext]_vars

InitPixel == PxInit /\ HsIdle /\ CvIdle /\ RdIdle /\ SsIdle /\ FsIdle /\ InIdle /\ DtIdle /\ MoreIdle

SpecPixel == InitPixel /\ [][PxNext]_vars

OldIdle == HsIdle /\ CvIdle /\ RdIdle /\ SsIdle /\ FsIdle /\ InIdle /\ DtIdle /\ PxIdle

InitSched == ScInit /\ OldIdle /\ TdIdle /\ CpIdle /\ DaIdle /\ DnIdle /\ TsIdle /\ UpIdle

SpecSched == InitSched /\ [][ScNext]_vars

InitSchedWriter == ScInitWriter /\ OldIdle /\ TdIdle /\ CpIdle /\ DaIdle /\ DnIdle /\ TsIdle /\ UpIdle

SpecSchedWriter == InitSchedWriter /\ [][ScWriterNext]_vars

InitDiff == TdInit /\ OldIdle /\ ScIdle /\ CpIdle /\ DaIdle /\ DnIdle /\ TsIdle /\ UpIdle

SpecDiff == InitDiff /\ [][TdNext]_vars

InitCache == CpInit /\ OldIdle /\ ScIdle /\ TdIdle /\ DaIdle /\ DnIdle /\ TsIdle /\ UpIdle

SpecCache == InitCache /\ [][CpNext]_vars

InitDes == DaInit /\ OldIdle /\ ScIdle /\ TdIdle /\ CpIdle /\ DnIdle /\ TsIdle /\ UpIdle

SpecDes == InitDes /\ [][DaNext]_vars

InitNew == DnInit /\ OldIdle /\ ScIdle /\ TdIdle /\ CpIdle /\ DaIdle /\ TsIdle /\ UpIdle

SpecNew == InitNew /\ [][DnNext]_vars

InitTouch == TsInit /\ OldIdle /\ ScIdle /\ TdIdle /\ CpIdle /\ DaIdle /\ DnIdle /\ UpIdle

SpecTouch == InitTouch /\ [][TsNext]_vars

InitUpdates == UpInit /\ OldIdle /\ ScIdle /\ TdIdle /\ CpIdle /\ DaIdle /\ DnIdle /\ TsIdle

SpecUpdates == InitUpdates /\ [][UpNext]_vars

\* the capture thread is a running OS thread and main a polled task; the
\* clients and the signal are free
FairSched ==
    /\ SpecSched
    /\ WF_vars(ScLoopNext)
    /\ WF_vars(ScMainReturn)

-----------------------------------------------------------------------------
(* Claims about the handshake (SpecHandshake)                              *)

\* the ServerInit message as the protocol states it, byte by byte
ExpectedServerInit ==
    <<hDim[1] \div 256, hDim[1] % 256, hDim[2] \div 256, hDim[2] % 256,
      32, 24, 0, 1, 0, 255, 0, 255, 0, 255, 16, 8, 0, 0, 0, 0,
      0, 0, 0, 6, 107, 109, 115, 118, 110, 99>>

WroteServerInit == \E i \in 1..Len(wire) : wire[i] = Wr(ExpectedServerInit)

\* the client's answer wire[j] is the right response to the challenge written
\* just before it, under the configured password
RightResponseAt(j) ==
    /\ j >= 2 /\ j <= Len(wire)
    /\ wire[j - 1].d = "w" /\ Len(wire[j - 1].b) = 16
    /\ wire[j].d = "r" /\ Len(wire[j].b) = 16
    /\ wire[j].b = vnc_des_auth(hPw.bytes, wire[j - 1].b)

\* C4: with a password configured, ServerInit is sent and the message loop is
\* entered only after the client returned the 16-byte response that equals
\* vnc_des_auth(password, challenge) for the challenge of this connection;
\* security type None is never offered (the security bytes name type 2 only)
\* and a client selecting type 1 is turned away with nothing more written.
C4_AuthBeforeServerInit ==
    hPw.some =>
        /\ (WroteServerInit \/ hpc \in {"client_init", "server_init", "loop"})
              => \E j \in 1..Len(wire) : RightResponseAt(j)
        /\ Len(wire) >= 3 => wire[3] \in {Wr(<<0, 0, 0, 2>>), Wr(<<1, 2>>)}
        /\ (Len(wire) >= 4 /\ wire[4].d = "r" /\ wire[4].b # <<2>>)
              => (Len(wire) = 4 /\ hpc = "closed")

C4_Witness ==
    /\ hPw.some
    /\ hpc = "loop"
    /\ WroteServerInit
    /\ hMinor = 7

\* C5: without a password and with a client minor >= 8 the socket history is
\* a prefix of: write "RFB 003.008\n", read 12 bytes, write [1,1], read the
\* selected type, write SecurityResult 0 (only if type 1 was selected), read
\* the one ClientInit byte, write ServerInit (width, height, pixel format,
\* name length 6, "kmsvnc"); each write follows the read of the step before.
C5_NoAuthHandshakeOrder ==
    (~hPw.some /\ Len(wire) >= 2 /\ hMinor >= 8) =>
        /\ Len(wire) <= 7
        /\ wire[1] = Wr(<<82, 70, 66, 32, 48, 48, 51, 46, 48, 48, 56, 10>>)
        /\ wire[2].d = "r" /\ Len(wire[2].b) = 12
        /\ Len(wire) >= 3 => wire[3] = Wr(<<1, 1>>)
        /\ Len(wire) >= 4 => (wire[4].d = "r" /\ Len(wire[4].b) = 1)
        /\ Len(wire) >= 5 => (wire[4].b = <<1>> /\ wire[5] = Wr(<<0, 0, 0, 0>>))
        /\ Len(wire) >= 6 => (wire[6].d = "r" /\ Len(wire[6].b) = 1)
        /\ Len(wire) >= 7 => wire[7] = Wr(ExpectedServerInit)
        /\ hpc = "loop" => Len(wire) = 7

C5_Witness ==
    /\ ~hPw.some
    /\ hMinor = 889
    /\ hpc = "loop"
    /\ Len(wire) = 7
    /\ hDim = <<1920, 1080>>

\* C6: for a client minor <= 6 with a password the server writes 00 00 00 02
\* and a 16-byte challenge, and after a 16-byte response that differs from
\* the expected one the session is closed with no further byte written;
\* without a password it writes 00 00 00 01 and next reads ClientInit.
C6_Rfb33Security ==
    (Len(wire) >= 3 /\ hMinor <= 6) =>
        IF hPw.some
        THEN /\ wire[3] = Wr(<<0, 0, 0, 2>>)
             /\ Len(wire) >= 4 => (wire[4].d = "w" /\ Len(wire[4].b) = 16)
             /\ Len(wire) >= 5 => (wire[5].d = "r" /\ Len(wire[5].b) = 16)
             /\ (Len(wire) >= 5 /\ ~RightResponseAt(5))
                   => (Len(wire) = 5 /\ hpc = "closed")
        ELSE /\ wire[3] = Wr(<<0, 0, 0, 1>>)
             /\ Len(wire) >= 4 => (wire[4].d = "r" /\ Len(wire[4].b) = 1)
             /\ Len(wire) = 3 => hpc \in {"client_init", "closed"}

C6_Witness ==
    /\ hPw.some
    /\ hMinor = 3
    /\ Len(wire) = 5
    /\ ~RightResponseAt(5)
    /\ hpc = "closed"

\* the sample version buffers that hold no decimal minor
UnparseableVersion(buf) ==
    buf \in { <<71, 69, 84, 32, 47, 32, 72, 84, 84, 80, 47, 49>>,
              <<82, 70, 66, 32, 48, 48, 51, 46, 48, 48, 255, 10>> }

\* the index in wire at which the security exchange completes (the selected
\* type without a password, the response with one)
ExchangeEnd == IF hPw.some THEN 6 ELSE 4

\* C7: for a client minor >= 8 (an unparseable version counts as 8) the write
\* that follows a completed security exchange is the SecurityResult: u32 0
\* on success, or u32 1, a u32 length and the ASCII reason on a failed
\* authentication, after which the session is closed; a client selecting an
\* unsupported type gets none. For a minor of 7 or less no write after the
\* security bytes is a 4-byte word: no SecurityResult on success or failure.
C7_SecurityResultShape ==
    Len(wire) >= 3 =>
        /\ UnparseableVersion(wire[2].b) => hMinor = 8
        /\ hMinor >= 8 =>
            /\ \A i \in 4..Len(wire) :
                  (wire[i].d = "w" /\ Len(wire[i].b) = 4) => i \in {ExchangeEnd + 1, ExchangeEnd + 2}
            /\ hpc \in {"client_init", "server_init", "loop"} => Len(wire) > ExchangeEnd
            /\ Len(wire) > ExchangeEnd =>
                  IF hPw.some
                  THEN IF RightResponseAt(6)
                       THEN wire[7] = Wr(<<0, 0, 0, 0>>)
                       ELSE /\ Len(wire) = 9
                            /\ wire[7] = Wr(<<0, 0, 0, 1>>)
                            /\ wire[8] = Wr(<<0, 0, 0, 21>>)
                            /\ wire[9] = Wr(AuthFailedReason)
                            /\ hpc = "closed"
                  ELSE wire[4] = Rd(<<1>>) /\ wire[5] = Wr(<<0, 0, 0, 0>>)
        /\ hMinor <= 7 =>
            \A i \in 4..Len(wire) : wire[i].d = "w" => Len(wire[i].b) \in {16, 30}

C7_Witness ==
    /\ hPw.some
    /\ Len(wire) = 9
    /\ UnparseableVersion(wire[2].b)
    /\ wire[7] = Wr(<<0, 0, 0, 1>>)
    /\ hpc = "closed"

-----------------------------------------------------------------------------
(* Claims about pixel conversion (SpecConvert)                             *)

\* C9: no client-supplied pixel format makes the encoder panic: whatever
\* bits-per-pixel, shifts and maxima SetPixelFormat carried, encoding a row
\* neither slices out of range nor overflows a shift.
C9_NoPanicOnPixelFormat == cvState # "panic"

\* the byte of the frame that belongs at position k (from 1) of the pixel
\* bytes of a rect: row r of the rect is Frame[r*width*4 + x*4 .. + w*4]
FrameByteAt(frame, rect, k) ==
    LET r == rect.y + (k - 1) \div (rect.width * 4)
        col == (k - 1) % (rect.width * 4)
    IN  frame.data[r * frame.width * 4 + rect.x * 4 + col + 1]

\* C16: while the client's pixel format equals the server default, the pixel
\* bytes written for a rect are exactly the frame's bytes of that region,
\* row after row, each row being Frame[r*width*4 + x*4 .. + w*4].
C16_RawBytesAreFrameBytes ==
    (cvRect # NoRect /\ cvState = "ok" /\ matches_server_default(cpf)) =>
        /\ Len(cvRectOut) = cvRect.width * cvRect.height * 4
        /\ \A k \in 1..Len(cvRectOut) :
               cvRectOut[k] = FrameByteAt(cvFrame, cvRect, k)

\* a rect of two rows that starts past the first column was written raw
C16_Witness ==
    /\ cvRect # NoRect /\ cvState = "ok" /\ matches_server_default(cpf)
    /\ cvRect.x > 0 /\ cvRect.height >= 2 /\ cvRect.width >= 2
    /\ Len(cvRectOut) = cvRect.width * cvRect.height * 4
    /\ cvRectOut[1] = FrameByteAt(cvFrame, cvRect, 1)

-----------------------------------------------------------------------------
(* Claims about the reader (SpecReader)                                    *)

\* the number of bytes the protocol gives the body of a client message
\* (after its type byte): 19, 3 + 4*count, 9, 7, 5, 7 + length
SpecifiedBodyLength(m) ==
    CASE m[1] = 0 -> 19
      [] m[1] = 2 -> 3 + 4 * (m[3] * 256 + m[4])
      [] m[1] = 3 -> 9
      [] m[1] = 4 -> 7
      [] m[1] = 5 -> 5
      [] m[1] = 6 -> 7 + (((m[5] * 256 + m[6]) * 256 + m[7]) * 256 + m[8])

RECURSIVE Flatten(_)
Flatten(msgs) == IF msgs = <<>> THEN <<>> ELSE Head(msgs) \o Flatten(Tail(msgs))

\* the reader has just handled the message at the head of the socket
ReaderHandled == Len(rdSent) > 0 /\ rdSent' = Tail(rdSent)

\* C8: on a message-type byte outside {0,2,3,4,5,6} the reader ends with an
\* error and forwards no update request and no input event for it, and
\* forwards nothing afterwards; for a type in {0,2,3,4,5,6} it reads exactly
\* the type byte and the specified body (19, 3+4*count, 9, 7, 5, 7+length
\* bytes), stays running, and the next byte it will read is the first byte
\* of the client's next message.
C8_ReaderDispatch ==
    [][ /\ ReaderHandled =>
            IF Head(rdSent)[1] \in {0, 2, 3, 4, 5, 6}
            THEN /\ Len(rdStream) - Len(rdStream') = 1 + SpecifiedBodyLength(Head(rdSent))
                 /\ rdStream' = Flatten(rdSent')
                 /\ rdState' = "run"
            ELSE /\ rdState' = "err"
                 /\ rdUpd' = rdUpd
                 /\ rdInput' = rdInput
        /\ rdState = "err" =>
            /\ rdState' = "err"
            /\ Len(rdUpd') <= Len(rdUpd)
            /\ Len(rdInput') <= Len(rdInput)
      ]_vars

\* a key event was forwarded, then an unknown type ended the reader, and the
\* bytes after it, which read as an update request, stay unread and unforwarded
C8_Witness ==
    /\ rdState = "err"
    /\ ~rdEof
    /\ Len(rdInput) = 1
    /\ rdUpd = <<>>
    /\ Len(rdStream) = 10
    /\ rdStream[1] = 3

-----------------------------------------------------------------------------
(* Claims about sessions and the scheduler (Spec, FairSpec)                *)

\* a forwarded update request of an open session has had no reply yet: it
\* is queued, or the writer is between receiving it and writing the reply
Owed(c) == cs[c] = "loop" /\ (update_req[c] # <<>> \/ wpc[c] # "recv")

\* C1: every update request forwarded to the writer of an open session is
\* eventually followed by a FramebufferUpdate written to that client, unless
\* the session ends.
C1_EveryRequestAnswered ==
    \A c \in Clients : Owed(c) ~> (out.to = c \/ cs[c] # "loop")

\* C2: when the writer answers an incremental request and the drain yields
\* no rects, the step it takes writes exactly the header 00 00 00 00 with no
\* rect after it and leaves the writer waiting for the next request; the
\* only other way out of that position is the select ending the session
\* because the reader is done.
C2_EmptyIncrementalReply ==
    [][ \A c \in Clients :
          ( /\ cs[c] = "loop" /\ wpc[c] = "emit"
            /\ winc[c] /\ drain_to_rects(dirty_tiles) = <<>>
            /\ (wpc'[c] # "emit" \/ cs'[c] # "loop") )
          => \/ /\ out'.to = c
                /\ out'.head = <<0, 0, 0, 0>>
                /\ out'.rects = <<>>
                /\ wpc'[c] = "recv"
                /\ cs'[c] = "loop"
             \/ /\ rpc[c] = "done"
                /\ cs'[c] = "ended"
                /\ out' = NoUpdate
      ]_vars

\* an empty update was just written in reply to an incremental request
C2_Witness ==
    /\ out.to \in Clients
    /\ out.incremental
    /\ out.head = <<0, 0, 0, 0>>
    /\ out.rects = <<>>
    /\ wpc[out.to] = "recv"
    /\ cs[out.to] = "loop"

\* C3: a reply to requests that include a non-incremental one holds exactly
\* one rect, (0,0,width,height) with encoding 0, followed by
\* width*height*bytes-per-pixel pixel bytes.
C3_NonIncrementalGetsFullFrame ==
    out.nonincr =>
        /\ out.head = <<0, 0, 0, 1>>
        /\ out.rects = <<[hdr |-> U16BE(0) \o U16BE(0) \o U16BE(Display.width)
                                  \o U16BE(Display.height) \o <<0, 0, 0, 0>>,
                          pixels |-> Display.width * Display.height
                                     * (pixel_format[out.to].bpp \div 8)]>>

\* the session of c ends in this step
SessionEnds(c) == cs[c] \in {"handshake", "loop"} /\ cs'[c] = "ended"

\* C10: the step that ends one session, whatever ends it, changes nothing
\* of any other session (its position, reader, queued requests, writer
\* state, view of the frame slot, pixel format), nothing of the capture
\* scheduler or its request queue, nothing of the frame slot and nothing of
\* the input queue; so whatever the others could do, they still can.
C10_SessionEndContained ==
    [][ \A c \in Clients : SessionEnds(c) =>
          /\ \A d \in Clients \ {c} :
                /\ cs'[d] = cs[d]
                /\ rpc'[d] = rpc[d]
                /\ update_req'[d] = update_req[d]
                /\ wpc'[d] = wpc[d]
                /\ winc'[d] = winc[d]
                /\ wframe'[d] = wframe[d]
                /\ fresh'[d] = fresh[d]
                /\ pixel_format'[d] = pixel_format[d]
                /\ nonincr'[d] = nonincr[d]
          /\ schedVars' = schedVars
          /\ frame_slot' = frame_slot
          /\ input_q' = input_q
      ]_vars

\* one session has ended on its reader (unknown message type or disconnect)
\* and an update with a rect was just written to another client
C10_Witness ==
    \E c \in Clients, d \in Clients :
        /\ c # d
        /\ cs[c] = "ended"
        /\ rpc[c] = "done"
        /\ out.to = d
        /\ out.rects # <<>>

-----------------------------------------------------------------------------
(* Claims about the frame slot                                             *)

\* C11: frames reach the slot from the one capture thread in the order they
\* were captured (the frame waiting to be sent is newer than the one in the
\* slot, and the slot never holds a frame newer than the last capture), and
\* the frame a writer borrows for an update is never older than the frame
\* its previous update was written from.
C11_FramesNeverGoBack ==
    /\ fsSlot.seq <= fsSeq
    /\ fsData # NoFrame => fsData.seq = fsSeq /\ fsData.seq > fsSlot.seq
    /\ \A c \in Clients :
        fsHeld[c] # NoFrame => /\ fsHeld[c].seq >= fsUsed[c].seq
                               /\ fsHeld[c].seq <= fsSlot.seq

\* a writer that answered from a published frame holds a later one while
\* the slot has already moved on again
C11_Witness ==
    \E c \in Clients :
        /\ fsUsed[c].seq >= 1
        /\ fsHeld[c] # NoFrame
        /\ fsHeld[c].seq > fsUsed[c].seq
        /\ fsSlot.seq > fsHeld[c].seq

\* C15: when a capture without force reads a framebuffer whose contents
\* equal the frame produced before, capture_fn returns None: nothing is
\* handed to frame_tx.send, the slot keeps its frame and no writer's
\* receiver sees a change -- with the DRM backend and with fbdev.
C15_UnchangedFrameNotPublished ==
    [][(/\ fsPc = "capture"
        /\ fsPc' # "capture"
        /\ fsErrors' = fsErrors
        /\ ~fsForce
        /\ fsSrc' = fsPrev)
       => (/\ fsPc' = "wait"
           /\ fsData' = NoFrame
           /\ fsSlot' = fsSlot
           /\ fsSeq' = fsSeq)]_vars

\* the same, for the DRM backend alone
C15_DrmOnly ==
    [][(/\ fsBackend = "drm"
        /\ fsPc = "capture"
        /\ fsPc' # "capture"
        /\ fsErrors' = fsErrors
        /\ ~fsForce
        /\ fsSrc' = fsPrev)
       => (/\ fsPc' = "wait"
           /\ fsData' = NoFrame
           /\ fsSlot' = fsSlot
           /\ fsSeq' = fsSeq)]_vars

-----------------------------------------------------------------------------
(* Claims about input                                                      *)

\* the events of client c waiting in the input channel, in channel order
QueuedFrom(c) ==
    LET sel == SelectSeq(inChan, LAMBDA m : m.from = c)
    IN  [i \in 1..Len(sel) |-> sel[i].ev]

\* C12: for each client, the events input_loop has taken, followed by its
\* events waiting in the channel, followed by those still unread on its
\* socket, are exactly the events the client sent, in the order it sent
\* them: none is dropped, duplicated or overtaken by another of the same
\* client.
C12_InputOrderPreserved ==
    \A c \in Clients :
        inHandled[c] \o QueuedFrom(c) \o inWire[c] = inSent[c]

\* two clients' events interleaved in the channel and applied
C12_Witness ==
    \E c \in Clients, d \in Clients :
        /\ c # d
        /\ Len(inHandled[c]) = 2
        /\ inHandled[c][1] # inHandled[c][2]
        /\ Len(inHandled[d]) = 1
        /\ inReport # <<>>

\* input_loop takes a pointer event while the touchscreen exists
PointerStep ==
    /\ inPc = "loop"
    /\ inChan # <<>>
    /\ inChan' = Tail(inChan)
    /\ Head(inChan).ev.kind = "Pointer"
    /\ inTouch

\* the four-case table, for the pointer event at the head of the channel:
\* the report written and the touch state afterwards
PointerTable ==
    LET ev == Head(inChan).ev
        bit0 == ev.button_mask % 2 = 1
        down == touch.is_touching
        moved == ev.x # touch.last_x \/ ev.y # touch.last_y
    IN  IF ~down /\ bit0
        THEN /\ inReport' = << <<"ABS_MT_SLOT", 0>>,
                               <<"ABS_MT_TRACKING_ID", touch'.tracking_id>>,
                               <<"ABS_MT_POSITION_X", ev.x>>,
                               <<"ABS_MT_POSITION_Y", ev.y>>,
                               <<"BTN_TOUCH", 1>>, <<"SYN_REPORT", 0>> >>
             /\ touch'.tracking_id >= 0
             /\ touch'.is_touching
        ELSE IF down /\ bit0 /\ moved
        THEN /\ inReport' = << <<"ABS_MT_SLOT", 0>>, <<"ABS_MT_POSITION_X", ev.x>>,
                               <<"ABS_MT_POSITION_Y", ev.y>>, <<"SYN_REPORT", 0>> >>
             /\ touch'.is_touching
        ELSE IF down /\ ~bit0
        THEN /\ inReport' = << <<"ABS_MT_SLOT", 0>>, <<"ABS_MT_TRACKING_ID", -1>>,
                               <<"BTN_TOUCH", 0>>, <<"SYN_REPORT", 0>> >>
             /\ ~touch'.is_touching
        ELSE /\ inReport' = <<>>
             /\ touch'.is_touching = touch.is_touching

LastPositionUpdated ==
    /\ touch'.last_x = Head(inChan).ev.x
    /\ touch'.last_y = Head(inChan).ev.y

\* C19 as stated: every pointer event handled by the touchscreen follows
\* the four-case table on {Up, Down} and bit 0 of the button mask, and
\* last_x/last_y take the event's position on every event.
C19_PointerTableEveryEvent ==
    [][PointerStep => PointerTable /\ LastPositionUpdated]_vars

\* C19, amended: the table and the update of last_x/last_y hold for every
\* pointer event whose uinput write succeeds or that needs no write; when
\* the write fails nothing is emitted and is_touching, last_x and last_y
\* keep their values.
C19_PointerTableOnSuccess ==
    [][PointerStep =>
         IF inResult' = "warn"
         THEN /\ inReport' = <<>>
              /\ touch'.is_touching = touch.is_touching
              /\ touch'.last_x = touch.last_x
              /\ touch'.last_y = touch.last_y
         ELSE PointerTable /\ LastPositionUpdated]_vars

\* press at (10,10), drag to (20,20), release at (20,20) from one client:
\* the release report has just been written for the first touch
C19_Witness ==
    \E c \in Clients :
        /\ inHandled[c] = <<Pointer(1, 10, 10), Pointer(1, 20, 20), Pointer(0, 20, 20)>>
        /\ inReport = << <<"ABS_MT_SLOT", 0>>, <<"ABS_MT_TRACKING_ID", -1>>,
                         <<"BTN_TOUCH", 0>>, <<"SYN_REPORT", 0>> >>
        /\ touch = [tracking_id |-> 1, is_touching |-> FALSE, last_x |-> 20, last_y |-> 20]

\* C20: input dispatch is best-effort.  Whatever happened to the devices
\* (creation failed, a write failed, a keysym had no mapping), input_loop
\* can always take the next queued event, so a reader with an event to
\* forward is never blocked for good; and a dispatch step takes exactly the
\* head of the channel, stays in the loop and ends no reader.
C20_InputBestEffort ==
    /\ [](inChan # <<>> => ENABLED (InCreateDevices \/ InDispatch))
    /\ [](\A c \in Clients :
             inReader[c] = "run" /\ inWire[c] # <<>>
                => ENABLED (InReaderForward(c) \/ InCreateDevices \/ InDispatch))
    /\ [][(inPc = "loop" /\ inChan' # inChan /\ Len(inChan') < Len(inChan))
             => /\ inChan' = Tail(inChan)
                /\ inPc' = "loop"
                /\ inReader' = inReader]_vars

\* the keyboard could not be created and a pointer write failed, and the
\* same client's next event is still applied
C20_Witness ==
    \E c \in Clients :
        /\ ~inKeyboard
        /\ inTouch
        /\ Len(inHandled[c]) = 3
        /\ inHandled[c][1].kind = "Key"
        /\ touch.tracking_id = 2
        /\ inResult = "ok"
        /\ inReport # <<>>
        /\ inReader[c] = "run"

-----------------------------------------------------------------------------
(* Claims about DirtyTiles                                                 *)

\* drain_to_rects of writer d returns in this step
Returns(d) == dtPc[d] = NUM_WORDS /\ dtPc'[d] = -1

\* C13: when a drain_to_rects returns, no tile whose bit was set when it
\* was called, and that was not set again while it ran, still has its bit
\* set -- whatever set, set_all and other drains did meanwhile.  (After the
\* return only another set can raise the bit.)
C13_DrainClearsWhatWasSet ==
    [][\A d \in Clients :
          Returns(d) /\ dtWatch = d => dtStale \cap dtBits' = {}]_vars

\* a drain returns the last tile of the second word while the tile set
\* behind it in the first word is still set
C13_Witness ==
    /\ dtOut.rects = << [x |-> 4160, y |-> 0, width |-> 40, height |-> 64] >>
    /\ dtBits = {0}

\* C14: no set is lost.  A tile that was set and has not been swapped out
\* by a drain since still has its bit set, and a drain returns the rect of
\* every tile it swapped out; so a drain called with tile i set returns
\* tile i's rect unless another drain swapped it out first.
C14_NoSetLost ==
    [][/\ dtOwed' \subseteq dtBits'
       /\ \A d \in Clients :
            Returns(d) =>
               LET returned == { dtOut'.rects[k] : k \in 1..Len(dtOut'.rects) }
                   due == (dtWords[d] \cup (IF dtWatch = d THEN dtMine ELSE {}))
                             \cap (0..(GridTotal(dtGrid) - 1))
               IN  \A t \in due : DirtyRect(dtGrid, t) \in returned]_vars

\* no bit is ever set outside the grid, so the words past the grid's last
\* word stay zero
BitsInsideGrid == dtBits \subseteq 0..(GridTotal(dtGrid) - 1)

\* after set_all on the 4 x 2 grid a drain returns all eight rects, the
\* last one clipped to 58 x 36, and nothing is left set
C14_Witness ==
    /\ Len(dtOut.rects) = 8
    /\ dtOut.rects[8] = [x |-> 192, y |-> 64, width |-> 58, height |-> 36]
    /\ dtBits = {}
    /\ dtOwed = {}

-----------------------------------------------------------------------------
(* Claims about the source converter                                       *)

\* C17: for every supported source format and every source pixel, whatever
\* its X or alpha byte, the fourth byte of each output pixel is 0xFF.
C17_OutputAlphaOpaque ==
    pxState = "ok" =>
        \A i \in 1..Len(pxDst) : i % 4 = 0 => pxDst[i] = 255

\* the same for the formats that go through a per-pixel loop
C17_SwappedAndRgb565Opaque ==
    pxState = "ok" /\ pxFormat \in {"Xbgr8888", "Abgr8888", "Rgb565"} =>
        \A i \in 1..Len(pxDst) : i % 4 = 0 => pxDst[i] = 255

\* C18: every frame the converter produces, for each supported format and
\* any pitch not smaller than the source row, is exactly width * height * 4
\* bytes long: the pitch padding is dropped.
C18_FrameLength ==
    pxState = "ok" =>
        /\ Len(pxDst) = pxWidth * pxHeight * 4
        /\ pxPitch > pxWidth * SourceBpp(pxFormat) =>
              \A i \in 1..Len(pxDst) : pxDst[i] # PAD_BYTE

\* a two-row framebuffer with padded rows, converted by the row copy
C18_Witness ==
    /\ pxState = "ok"
    /\ pxFormat = "Argb8888"
    /\ pxWidth = 2
    /\ pxHeight = 2
    /\ pxPitch = 12
    /\ Len(pxSrc) = 24
    /\ Len(pxDst) = 16

-----------------------------------------------------------------------------
(* Claims about capture_loop and its clock (SpecSched, FairSched)          *)

\* C21: once the shutdown flag is set, capture_loop eventually exits and
\* main returns, in either mode and whether or not clients keep sending
\* capture requests.
C21_ShutdownStopsLoop == scShutdown ~> (scPc = "exited" /\ scMain = "returned")

\* the part of C21 that the flag's one reader supports: with the flag set
\* and no request arriving any more, the loop exits
C21_ShutdownStopsIdleLoop == (scShutdown /\ scClients = 0 /\ scReq = 0) ~> (scPc = "exited")

\* with every sender dropped, the receive that finds the queue empty is the
\* loop's last step
C21_ClosedChannelStopsLoop ==
    [][(scPc = "recv" /\ scReq = 0 /\ ~scMainTx /\ scClients = 0 /\ scPc' # scPc)
        => scPc' = "exited"]_vars

\* C26: the scheduler starts in OnDemand, and in either mode each request
\* it dequeues makes it discard every other queued request and then run
\* exactly one capture with force = true, whose frame is sent iff the
\* capture returned Some; no dequeued request goes without that capture.
C26_RequestForcesOneCapture ==
    /\ [](scHandled = 0 => scMode = "OnDemand")
    /\ [](scOut.step = "recv" => (scPc = "capture" /\ scForce /\ ENABLED ScDoCapture))
    /\ [][/\ (scOut'.step = "recv" /\ scOut' # scOut) =>
                (scReq > 0 /\ scOut'.taken = scReq /\ scReq' = 0)
          /\ (scPc = "capture" /\ scPc' # scPc) =>
                /\ scOut'.step = "capture"
                /\ scOut'.force = scForce
                /\ scOut'.sent = (scOut'.result = "Some")
                /\ scPc' = "recv"
          /\ (scOut'.step = "capture" /\ scOut' # scOut /\ scOut'.force) =>
                scOut.step = "recv"]_vars

\* in Polling, a request was dequeued together with another queued one, and
\* its forced capture returned a frame that was sent
C26_Witness ==
    /\ scMode = "Polling"
    /\ scOut.step = "capture" /\ scOut.force /\ scOut.result = "Some" /\ scOut.sent
    /\ scHandled > FAST_REQUEST_THRESHOLD

\* a request was dequeued while another one was queued behind it
C26_Coalesced == scOut.step = "recv" /\ scOut.taken = 2 /\ scReq = 0

\* the capture thread has just dequeued a request or run its forced capture
JustHandled == scOut.step = "recv" \/ (scOut.step = "capture" /\ scOut.force)

\* C27: starting in OnDemand with no earlier request, once three requests
\* have been dequeued, each less than 100 ms after the previous one, the
\* scheduler is in Polling (16 ms) after handling the third; a gap of 100 ms
\* or more between two requests resets fast_request_count to 0.
C27_ThreeFastRequestsStartPolling ==
    /\ (JustHandled /\ scHandled = FAST_REQUEST_THRESHOLD /\ scAllFast) =>
            (scMode = "Polling" /\ TimeoutOf(scMode) = 16)
    /\ (scOut.step = "recv" /\ scOut.elapsed >= 100) => scFast = 0

\* what the counter does: it counts the fast gaps between requests, so the
\* fourth of four fast requests is the one that starts polling
C27_FourFastRequestsStartPolling ==
    /\ (JustHandled /\ scHandled = FAST_REQUEST_THRESHOLD + 1 /\ scAllFast) =>
            (scMode = "Polling" /\ TimeoutOf(scMode) = 16)
    /\ (scHandled <= FAST_REQUEST_THRESHOLD) => scMode = "OnDemand"
    /\ (scOut.step = "recv" /\ scOut.elapsed >= 100) => scFast = 0

C27_FourthHandled ==
    /\ scHandled = FAST_REQUEST_THRESHOLD + 1 /\ scAllFast
    /\ scOut.step = "capture" /\ scOut.force /\ scMode = "Polling"

\* C28: capture(force = false) runs only in Polling mode, after a receive
\* timeout that found at most 500 ms elapsed since the last request; its
\* frame is sent only when it returned Some; a timeout in OnDemand mode
\* never starts a capture.
C28_UnforcedCaptureOnlyWhenPolling ==
    /\ [](scPc = "capture" /\ ~scForce =>
            /\ scMode = "Polling"
            /\ scOut.step = "timeout"
            /\ scLast /\ scOut.elapsed >= 0 /\ scOut.elapsed <= 500)
    /\ []((scOut.step = "capture" /\ ~scOut.force /\ scOut.sent) => scOut.result = "Some")
    /\ [][(scMode = "OnDemand" /\ scOut'.step = "timeout" /\ scOut' # scOut) =>
              (scPc' # "capture" /\ scMode' = "OnDemand")]_vars

\* a polling tick captured without force and the unchanged frame was not sent
C28_Witness ==
    /\ scMode = "Polling"
    /\ scOut.step = "capture" /\ ~scOut.force /\ scOut.result = "None" /\ ~scOut.sent
    /\ scSince > 100

\* a timeout fired in OnDemand
C28_OnDemandTimeout == scMode = "OnDemand" /\ scOut.step = "timeout" /\ scPc = "recv" /\ scHandled > 0

\* C29: a polling timeout that finds more than 500 ms elapsed since the last
\* request switches to OnDemand, resets fast_request_count and captures
\* nothing on that tick; so when requests stop the scheduler gets back to
\* OnDemand, where it captures only on requests, and Polling is entered
\* again only by a dequeue that completes a new run of fast requests.
C29_PollingFallsBackToOnDemand ==
    /\ [][(scMode = "Polling" /\ scOut'.step = "timeout" /\ scOut' # scOut
            /\ scOut'.elapsed > 500) =>
              (scMode' = "OnDemand" /\ scFast' = 0 /\ scPc' = "recv")]_vars
    /\ [][(scMode = "OnDemand" /\ scMode' = "Polling") =>
              (scOut'.step = "recv" /\ scFast = FAST_REQUEST_THRESHOLD - 1
               /\ scFast' = FAST_REQUEST_THRESHOLD)]_vars
    /\ [](scMode = "OnDemand" /\ scPc = "capture" => scForce)
    /\ (scMode = "Polling") ~> (scMode = "OnDemand" \/ scReq > 0 \/ scPc = "exited")

\* polling has fallen back: the tick that measured more than 500 ms left the
\* scheduler in OnDemand with the counter at 0 and no capture pending
C29_Witness ==
    /\ scOut.step = "timeout" /\ scOut.elapsed > 500
    /\ scMode = "OnDemand" /\ scFast = 0 /\ scPc = "recv"
    /\ scHandled > FAST_REQUEST_THRESHOLD

-----------------------------------------------------------------------------
(* Claims about a writer waiting on the scheduler (SpecSchedWriter)        *)

\* C30: when a capture returns an error the scheduler sends no frame, keeps
\* its mode and counters, stays in its loop and captures again on the next
\* request or polling tick; a writer that was waiting through the failure is
\* woken by the next frame a later capture sends.
C30_CaptureErrorIsSurvived ==
    /\ [][(scOut'.step = "capture" /\ scOut'.result = "Err" /\ scOut' # scOut) =>
              /\ ~scOut'.sent
              /\ scFresh' = scFresh
              /\ scMode' = scMode /\ scFast' = scFast /\ scLast' = scLast
              /\ scPc' = "recv"]_vars
    /\ [][(scOut.step = "capture" /\ scOut.result = "Err" /\ scOut' # scOut) =>
              /\ scOut'.step = "recv" => (scPc' = "capture" /\ scForce')
              /\ (scOut'.step = "timeout" /\ scMode = "Polling" /\ scOut'.elapsed <= 500)
                    => (scPc' = "capture" /\ ~scForce')]_vars
    /\ []((scOut.step = "capture" /\ scOut.result = "Err") => ENABLED ScLoopNext)
    /\ [][(scW = "failed" /\ scOut'.step = "capture" /\ scOut'.sent /\ scOut' # scOut) =>
              (scW' = "failed" /\ scFresh')]_vars
    /\ []((scW = "failed" /\ scFresh) => ENABLED ScWriterServe)

\* the writer's capture failed, a later capture sent a frame, and the writer
\* is about to be served with it
C30_Witness ==
    /\ scW = "failed" /\ scFresh
    /\ scOut.step = "capture" /\ scOut.result = "Some" /\ scOut.sent
    /\ scPc = "recv"

\* a capture failed in Polling and the next tick captured again
C30_RetriedOnTick ==
    /\ scW = "failed" /\ scMode = "Polling"
    /\ scPc = "capture" /\ ~scForce

-----------------------------------------------------------------------------
(* Claims about copy_rows_incremental (SpecDiff)                           *)

\* whether the byte differs between the mapped framebuffer and the previous frame
Differs(b) ==
    (OffsetOf(b, TdPitch(tdPad)) \in tdSrc) # (OffsetOf(b, TdDisplay.width * 4) \in tdPrev)

\* bit index ty * ceil(W / 64) + tx of the tile that holds pixel (x, y)
TileOfPixel(x, y) == (y \div 64) * ((TdDisplay.width + 63) \div 64) + x \div 64

\* the tiles that hold a pixel with a differing byte
DifferingTiles == { TileOfPixel(b[1], b[2]) : b \in { c \in ByteSamples : Differs(c) } }

\* C22: copy_rows_incremental marks exactly the tiles that contain a pixel
\* differing between the source and the previous frame, returns true iff it
\* marked one, and leaves dst equal to the source pixels; a difference only
\* at pixel (63,63) gives the one dirty rect (0,0,64,64), a difference only
\* at (64,0) marks only tile column 1 of tile row 0.
C22_ExactlyDifferingTilesMarked ==
    tdState = "done" =>
        /\ tdBits = tdBits0 \cup DifferingTiles
        /\ tdAny = (DifferingTiles # {})
        /\ tdDst = { OffsetOf(b, TdDisplay.width * 4) :
                       b \in { c \in ByteSamples : OffsetOf(c, TdPitch(tdPad)) \in tdSrc } }
        /\ ({ c \in ByteSamples : Differs(c) } = { <<63, 63, 0>> } /\ tdBits0 = {}) =>
              RectsOf(TdDisplay, tdBits) = << [x |-> 0, y |-> 0, width |-> 64, height |-> 64] >>
        /\ ({ c \in ByteSamples : Differs(c) } = { <<64, 0, 3>> } /\ tdBits0 = {}) =>
              tdBits = {1}

\* the frames differed only at pixel (63,63), with padded source rows, and
\* the one tile was marked
C22_Witness ==
    /\ tdState = "done"
    /\ tdPad > 0
    /\ { c \in ByteSamples : Differs(c) } = { <<63, 63, 0>> }
    /\ tdPrev # {}
    /\ tdBits = {0} /\ tdAny

\* the frames differed in the clipped tile of the bottom right corner
C22_CornerTile == tdState = "done" /\ 5 \in tdBits /\ tdBits0 = {} /\ Cardinality(tdBits) = 1

-----------------------------------------------------------------------------
(* Claims about the Capturer's mappings (SpecCache)                        *)

CachedIds == { cpCache[k].id : k \in 1..Len(cpCache) }

\* C23: every mapping the Capturer creates is unmapped exactly once, on
\* eviction, on drop, or on an error path taken after it was created, and
\* none is read after it was unmapped: a mapping that is not in the cache
\* has had its one munmap, a cached one none yet, and after drop all have.
C23_EveryMappingUnmappedOnce ==
    /\ \A id \in 1..cpMaps : cpUnmaps[id] = IF id \in CachedIds THEN 0 ELSE 1
    /\ cpState = "dropped" => \A id \in 1..cpMaps : cpUnmaps[id] = 1
    /\ cpRead.live

\* the part that holds: no mapping is unmapped twice, cached mappings are
\* mapped, evicted and dropped ones are unmapped once, none is read after
\* its munmap
C23_NoDoubleUnmapNoStaleRead ==
    /\ \A id \in 1..cpMaps : cpUnmaps[id] <= 1
    /\ \A id \in CachedIds : cpUnmaps[id] = 0
    /\ cpRead.live

\* mappings made for a framebuffer whose conversion succeeded are unmapped
\* exactly once by the time the Capturer is dropped
C23_Evicted == Len(cpCache) = MAX_CACHE_ENTRIES /\ cpUnmaps[1] = 1 /\ cpState = "alive"

-----------------------------------------------------------------------------
(* Claims about vnc_des_auth (SpecDes)                                     *)

\* the first 8 bytes of a password, zero-padded when shorter
First8(pw) == [i \in 1..8 |-> IF i <= Len(pw) THEN pw[i] ELSE 0]

BitOf(b, j) == (b \div Pow2(j)) % 2

\* C24: the DES key is the first 8 password bytes, zero-padded, each with
\* its bit order reversed; two passwords agreeing on their first 8 bytes
\* give identical responses to the same challenge; each half of the response
\* is the encryption of the same half of the challenge under that key, so
\* that it depends on that half of the challenge only.
C24_KeyAndBlocks ==
    daState = "done" =>
        /\ \A c \in {daA, daB} :
            /\ Len(c.key) = 8 /\ Len(c.response) = 16
            /\ \A i \in 1..8, j \in 0..7 :
                BitOf(c.key[i], j) = BitOf(First8(c.password)[i], 7 - j)
            /\ SubSeq(c.response, 1, 8) = DesEncryptBlock(c.key, SubSeq(c.challenge, 1, 8))
            /\ SubSeq(c.response, 9, 16) = DesEncryptBlock(c.key, SubSeq(c.challenge, 9, 16))
        /\ First8(daA.password) = First8(daB.password)
            => /\ daA.key = daB.key
               /\ daA.challenge = daB.challenge => daA.response = daB.response
        /\ (daA.key = daB.key /\ SubSeq(daA.challenge, 1, 8) = SubSeq(daB.challenge, 1, 8))
            => SubSeq(daA.response, 1, 8) = SubSeq(daB.response, 1, 8)
        /\ (daA.key = daB.key /\ SubSeq(daA.challenge, 9, 16) = SubSeq(daB.challenge, 9, 16))
            => SubSeq(daA.response, 9, 16) = SubSeq(daB.response, 9, 16)

\* a nine-byte and a ten-byte password with the same first eight bytes
\* answered the same challenge
C24_Witness ==
    /\ daState = "done"
    /\ Len(daA.password) = 9 /\ Len(daB.password) = 10
    /\ First8(daA.password) = First8(daB.password)
    /\ daA.challenge = daB.challenge
    /\ daA.response = daB.response

\* one password, two challenges that differ in byte 0 only: the second
\* halves of the responses agree and the first halves do not
C24_HalvesIndependent ==
    /\ daState = "done"
    /\ daA.password = daB.password
    /\ daA.challenge # daB.challenge
    /\ SubSeq(daA.challenge, 9, 16) = SubSeq(daB.challenge, 9, 16)
    /\ SubSeq(daA.response, 9, 16) = SubSeq(daB.response, 9, 16)
    /\ SubSeq(daA.response, 1, 8) # SubSeq(daB.response, 1, 8)

-----------------------------------------------------------------------------
(* Claims about DirtyTiles::new (SpecNew)                                  *)

\* ceil(W/64) * ceil(H/64) > 512, over the integers
ExceedsMaxTiles ==
    LET tx_count == DivCeil(dnDim[1], TILE_SIZE)
        ty_count == DivCeil(dnDim[2], TILE_SIZE)
    IN  tx_count > 0 /\ ty_count > MAX_TILES \div tx_count

Constructed == dnState \in {"built", "out_of_bounds"}

\* C25: new rejects every display of more than 512 tiles and accepts every
\* display of at most 512; for an accepted display every index set, set_all
\* and drain_to_rects use addresses one of the 64 bits of one of the 8 words.
C25_RejectsOver512 ==
    /\ dnState = "rejected" => ExceedsMaxTiles
    /\ Constructed => ~ExceedsMaxTiles
    /\ Constructed /\ dnUse.op # "none"
        => /\ dnState = "built"
           /\ dnUse.word < NUM_WORDS
           /\ dnUse.bit < WORD_BITS

\* the same where the tile count fits 32 bits, or the build checks overflow
C25_RejectsOver512Unwrapped ==
    (dnBuild = "checked"
        \/ ~MulOverflows(DivCeil(dnDim[1], TILE_SIZE), DivCeil(dnDim[2], TILE_SIZE)))
    => C25_RejectsOver512

\* a display of exactly 512 tiles was accepted and its last bit addressed
C25_LastBitOfFullGrid ==
    /\ dnState = "built"
    /\ dnTiles.total = MAX_TILES
    /\ dnUse = [op |-> "set", word |-> 7, bit |-> 63]

\* a display of 513 tiles was rejected
C25_OneTooMany == dnState = "rejected" /\ dnDim = <<32769, 64>>

-----------------------------------------------------------------------------
(* Claims about the cache's size, its eviction order and the latches       *)
(* (SpecCache)                                                             *)

\* the call just made mapped a framebuffer and converted it
MappedAndCached == cpMaps' = cpMaps + 1 /\ cpResult' = "Ok"

\* C31: the cache never holds more than four entries, its entries stay in
\* insertion order whatever is hit in between, and a framebuffer mapped
\* while four are cached removes the entry inserted earliest: that one is
\* unmapped, then its GEM handle closed, then the new entry pushed.
C31_AtMostFourFifo ==
    [][ /\ Len(cpCache') <= MAX_CACHE_ENTRIES
        /\ \A j, k \in 1..Len(cpCache') :
            j < k => /\ cpCache'[j].id < cpCache'[k].id
                     /\ cpCache'[j].fb_key # cpCache'[k].fb_key
        /\ (MappedAndCached /\ Len(cpCache) = MAX_CACHE_ENTRIES)
            => /\ cpCache' = Append(Tail(cpCache), [fb_key |-> cpCache'[Len(cpCache')].fb_key,
                                                    id |-> cpMaps'])
               /\ cpLog' = << [op |-> "munmap", id |-> Head(cpCache).id],
                              [op |-> "close_buffer", id |-> Head(cpCache).id],
                              [op |-> "push", id |-> cpMaps'] >>
               /\ cpUnmaps'[Head(cpCache).id] = 1
        /\ (MappedAndCached /\ Len(cpCache) < MAX_CACHE_ENTRIES)
            => /\ cpCache' = Append(cpCache, cpCache'[Len(cpCache')])
               /\ cpLog' = << [op |-> "push", id |-> cpMaps'] >>
               /\ cpUnmaps' = cpUnmaps
        /\ (cpState' = "alive" /\ ~MappedAndCached) => cpCache' = cpCache /\ cpLog' = <<>>
      ]_vars

\* a fifth framebuffer has just replaced the first
C31_Witness ==
    /\ cpState = "alive"
    /\ Len(cpCache) = MAX_CACHE_ENTRIES
    /\ cpLog = << [op |-> "munmap", id |-> 1], [op |-> "close_buffer", id |-> 1],
                  [op |-> "push", id |-> 5] >>
    /\ cpCache[1].id = 2 /\ cpCache[4].id = 5

InTried(path) == \E k \in 1..Len(cpTried') : cpTried'[k] = path

LastTried == IF cpTried' = <<>> THEN "none" ELSE cpTried'[Len(cpTried')]

\* C32: a latch that is Some(v) keeps its value; after Some(false) the
\* failed path is not attempted, after Some(true) the fallback is not
\* attempted and the latched path's failure is the call's error; a latch
\* changes only in a call that created a mapping, and takes the value of
\* the path that created it.
C32_LatchesAreFinal ==
    [][ /\ use_fb2 # "None" => use_fb2' = use_fb2
        /\ use_prime # "None" => use_prime' = use_prime
        /\ use_fb2 = "Some(false)" => ~InTried("GET_FB2")
        /\ use_prime = "Some(false)" => ~InTried("PRIME")
        /\ use_fb2 = "Some(true)" => ~InTried("GET_FB")
        /\ use_prime = "Some(true)" => ~InTried("DUMB")
        /\ (cpTried' # <<>> /\ cpMaps' = cpMaps) => cpResult' = "Err"
        /\ (use_fb2' # use_fb2 \/ use_prime' # use_prime) => cpMaps' = cpMaps + 1
        /\ use_fb2' # use_fb2 => use_fb2' = IF InTried("GET_FB") THEN "Some(false)" ELSE "Some(true)"
        /\ use_prime' # use_prime
            => use_prime' = IF LastTried = "PRIME" THEN "Some(true)" ELSE "Some(false)"
      ]_vars

\* with use_fb2 = Some(false) and use_prime = Some(true), a PRIME failure
\* ended the call without MAP_DUMB
C32_Witness ==
    /\ use_fb2 = "Some(false)"
    /\ use_prime = "Some(true)"
    /\ cpTried = <<"GET_FB", "PRIME">>
    /\ cpResult = "Err"

\* GET_FB2 latched: its failure ended the call without GET_FB
C32_LatchedFb2Failed ==
    /\ use_fb2 = "Some(true)"
    /\ cpTried = <<"GET_FB2">>
    /\ cpResult = "Err"

-----------------------------------------------------------------------------
(* Claims about the rects drain_to_rects returns (SpecNew)                 *)

\* C33: for an accepted display, the rects of a drain are those of the set
\* bits of tiles inside the grid, one each: x = 64*tx, y = 64*ty,
\* width = min(64, W - x), height = min(64, H - y), hence 1..64 wide and
\* high and inside the display, listed in row-major tile order without
\* repetition.
C33_RectsAreClippedTiles ==
    LET W == dnDim[1]
        H == dnDim[2]
        grid_x == DivCeil(W, TILE_SIZE)
        grid_y == DivCeil(H, TILE_SIZE)
        rects == dnRects.rects
        InGrid == { i \in dnRects.drained : i < grid_x * grid_y }
    IN  /\ Len(rects) = Cardinality(InGrid)
        /\ \A k \in 1..Len(rects) :
            LET r == rects[k]
            IN  /\ r.x % TILE_SIZE = 0 /\ r.y % TILE_SIZE = 0
                /\ r.x \div TILE_SIZE < grid_x /\ r.y \div TILE_SIZE < grid_y
                /\ ((r.y \div TILE_SIZE) * grid_x + r.x \div TILE_SIZE) \in dnRects.drained
                /\ r.width = (IF W - r.x < TILE_SIZE THEN W - r.x ELSE TILE_SIZE)
                /\ r.height = (IF H - r.y < TILE_SIZE THEN H - r.y ELSE TILE_SIZE)
                /\ r.width >= 1 /\ r.width <= TILE_SIZE
                /\ r.height >= 1 /\ r.height <= TILE_SIZE
                /\ r.x + r.width <= W /\ r.y + r.height <= H
        /\ \A j, k \in 1..Len(rects) :
            j < k => \/ rects[j].y < rects[k].y
                     \/ rects[j].y = rects[k].y /\ rects[j].x < rects[k].x

\* a 1920x1080 display drained with all 510 tiles set: the last rect is the
\* clipped corner tile
C33_Witness ==
    /\ dnDim = <<1920, 1080>>
    /\ Len(dnRects.rects) = 510
    /\ dnRects.rects[510] = [x |-> 1856, y |-> 1024, width |-> 64, height |-> 56]

\* a display 32705 wide: tile 511 is one pixel wide
C33_NarrowLastTile ==
    /\ dnDim = <<32705, 1>>
    /\ dnRects.rects # <<>>
    /\ dnRects.rects[Len(dnRects.rects)] = [x |-> 32704, y |-> 0, width |-> 1, height |-> 1]

-----------------------------------------------------------------------------
(* Claims about the VirtualTouchscreen (SpecTouch)                         *)

Successor(id) == IF id = TRACKING_ID_MAX THEN 0 ELSE id + 1

\* C34: every contact handle_pointer starts takes the id after the one
\* before it, modulo 65536, the first one 1; the id written in a touch-down
\* is the one just taken, lies in 0..65535, is never -1, also past the
\* 65536th contact, and differs from the id of the touch-down before it.
C34_TrackingIdsWrap ==
    [][ /\ tsAssigned' # tsAssigned => tsTouch'.tracking_id = Successor(tsTouch.tracking_id)
        /\ tsAssigned' = tsAssigned => tsTouch'.tracking_id = tsTouch.tracking_id
        /\ ReportKind(tsReport') = "down"
            => LET id == ReportId(tsReport')
               IN  /\ tsAssigned' # tsAssigned
                   /\ id = tsTouch'.tracking_id
                   /\ id >= 0 /\ id <= TRACKING_ID_MAX
                   /\ id # -1
                   /\ tsPrevDown.some => id # tsPrevDown.id
                   /\ (tsAllOk' /\ tsPrevDown.some) => id = Successor(tsPrevDown.id)
                   /\ (tsAllOk' /\ ~tsPrevDown.some) => id = 1
      ]_vars

\* the contact after the one with id 65535 was written with id 0
C34_Witness ==
    /\ tsReport # <<>>
    /\ ReportKind(tsReport) = "down"
    /\ ReportId(tsReport) = 0
    /\ tsTouch.tracking_id = 0
    /\ tsTouch.is_touching

\* the first contact of a new device was written with id 1
C34_FirstContact ==
    /\ tsAssigned = 1
    /\ tsPrevDown = [some |-> TRUE, id |-> 1]
    /\ tsTouch.is_touching

\* C39: while every write succeeds, a touch-down is written only after no
\* report or a touch-up, with a fresh id, a touch-up (TRACKING_ID -1,
\* BTN_TOUCH 0) and a move only after a touch-down, and is_touching is
\* true exactly when the last down or up written was a touch-down.
C39_DownsAndUpsAlternate ==
    [][ tsAllOk' =>
        /\ ReportKind(tsReport') = "down"
            => /\ tsLast \in {"none", "up"}
               /\ HasEvent(tsReport', <<"BTN_TOUCH", 1>>)
               /\ tsPrevDown.some => ReportId(tsReport') # tsPrevDown.id
        /\ ReportKind(tsReport') = "up"
            => /\ tsLast = "down"
               /\ HasEvent(tsReport', <<"ABS_MT_TRACKING_ID", -1>>)
               /\ HasEvent(tsReport', <<"BTN_TOUCH", 0>>)
        /\ ReportKind(tsReport') = "move"
            => /\ tsLast = "down"
               /\ ~HasEvent(tsReport', <<"ABS_MT_TRACKING_ID", -1>>)
               /\ \A k \in 1..Len(tsReport') :
                    tsReport'[k][1] \notin {"BTN_TOUCH", "ABS_MT_TRACKING_ID"}
        /\ tsTouch'.is_touching <=> tsLast' = "down"
      ]_vars

\* down, move, up, down: the second touch-down has just been written
C39_Witness ==
    /\ tsAllOk
    /\ tsAssigned = 2
    /\ ReportKind(tsReport) = "down"
    /\ tsTouch.is_touching
    /\ tsLast = "down"

\* a move has been written during a contact
C39_MoveDuringContact ==
    /\ tsAllOk
    /\ ReportKind(tsReport) = "move"
    /\ tsTouch.is_touching

\* C40: a call whose write failed leaves is_touching, last_x and last_y as
\* they were, so that the device answers the next event as it would have
\* answered it before the failed call: a failed touch-down is tried again
\* by the next touching event, a failed touch-up by the next event that is
\* not touching; is_touching changes only together with the written
\* touch-down or touch-up.
C40_FailedWriteChangesNothing ==
    [][ /\ ~tsOk'
            => /\ tsReport' = <<>>
               /\ tsTouch'.is_touching = tsTouch.is_touching
               /\ tsTouch'.last_x = tsTouch.last_x
               /\ tsTouch'.last_y = tsTouch.last_y
               /\ \A e \in PointerSamples :
                    /\ (Touching(e.button_mask) /\ ~tsTouch.is_touching)
                        => ReportKind(handle_pointer(tsTouch', e.button_mask, e.x, e.y,
                                                     TRUE).report) = "down"
                    /\ (~Touching(e.button_mask) /\ tsTouch.is_touching)
                        => ReportKind(handle_pointer(tsTouch', e.button_mask, e.x, e.y,
                                                     TRUE).report) = "up"
        /\ tsTouch'.is_touching # tsTouch.is_touching
            => /\ tsOk'
               /\ ReportKind(tsReport') = IF tsTouch'.is_touching THEN "down" ELSE "up"
      ]_vars

\* a touch-down has just failed: the device is still up
C40_Witness ==
    /\ ~tsOk
    /\ ~tsTouch.is_touching
    /\ tsAssigned = 1
    /\ tsTouch.tracking_id = 1

\* a touch-up has just failed: the device is still down
C40_FailedUp ==
    /\ ~tsOk
    /\ tsTouch.is_touching
    /\ tsLast = "down"

\* C36: once a session is over (its writer loop ended and handle_client
\* returned) its reader task is not running any more: it reads no further
\* message of that client and forwards no key or pointer event.
C36_ReaderStopsWithSession ==
    \A c \in Clients : cs[c] = "ended" => rpc[c] # "run"

\* a session that ended because its reader finished leaves no task behind
C36_ReaderEndedSession ==
    \E c \in Clients : cs[c] = "ended" /\ rpc[c] = "done"

-----------------------------------------------------------------------------
(* Claims about the updates the clients are sent (SpecUpdates)             *)

\* C35: the Frame an incremental update is written from was published
\* after the writer sent the capture request for that update: no writer
\* borrows, for an incremental request, a frame that was in the slot
\* already when it signalled the scheduler.
C35_FramePublishedAfterRequest ==
    [][ \A c \in Clients :
          (upWpc[c] = "borrow" /\ upWpc'[c] = "emit" /\ upInc[c]) => upSince[c]
      ]_vars

\* an incremental update written from a frame published after its request
C35_AnsweredWithLaterFrame ==
    \E c \in Clients : upWpc[c] = "emit" /\ upInc[c] /\ upSince[c]

\* the tiles in which the frame of the update just written differs from the
\* frame of the same client's update before it
ChangedSinceLast == copy_rows_incremental(upOut.prev.data, upOut.frame)

\* an incremental update to a client that was sent an update before
IncrementalAgain == upOut.to # 0 /\ upOut.incremental /\ upOut.prev.some

\* C37: with both clients connected and draining the one bitmap, the rects
\* of every incremental update cover each tile that changed between the
\* Frame the client was last sent and the Frame used now.
C37_SharedBitmapMissesNoTile ==
    ((\A c \in Clients : upConn[c]) /\ IncrementalAgain)
        => ChangedSinceLast \subseteq upOut.tiles

\* both clients connected, an incremental update that carries a changed tile
C37_ChangedTileSent ==
    /\ \A c \in Clients : upConn[c]
    /\ IncrementalAgain
    /\ ChangedSinceLast # {}
    /\ ChangedSinceLast \subseteq upOut.tiles

\* C38: with a single client, whatever the scheduler's mode, the rects of
\* every incremental update cover each tile in which the Frame being sent
\* differs from the Frame of the client's previous update.
C38_SingleClientMissesNoTile ==
    ((\E c \in Clients : \A d \in Clients : upConn[d] <=> d = c) /\ IncrementalAgain)
        => ChangedSinceLast \subseteq upOut.tiles

=============================================================================
